---------------------------- MODULE Spec2Model ----------------------------
(***************************************************************************)
(* Model of the two lyon wgpu examples:                                    *)
(*   examples/wgpu      ("procedural" variant, the rust logo)              *)
(*   examples/wgpu_svg  ("SVG" variant, a parsed document)                 *)
(* Each is a setup phase (tessellation into one mesh, primitive tables)    *)
(* followed by a winit event loop whose closure folds one event into the   *)
(* scene (update_inputs) and, unless told to keep polling, renders a frame.*)
(***************************************************************************)
EXTENDS Integers, Sequences, FiniteSets, TLC

(***************************************************************************)
(* f32 arithmetic.  A value is a record                                    *)
(*   [cls |-> "num", m |-> mantissa, e |-> exponent]   = m * 2^e           *)
(*   [cls |-> "inf", m |-> 1 or -1, e |-> 0]                                *)
(*   [cls |-> "nan", m |-> 0, e |-> 0]                                      *)
(* with 2^23 <= |m| < 2^24 for normal numbers, e = EMin and |m| < 2^23 for  *)
(* subnormals and zero.  Zero carries no sign.  Every operation rounds to  *)
(* nearest, ties to even, as the hardware does.                            *)
(***************************************************************************)
MantBits == 24
EMin == -149
EMax == 104

Pow2(n) == 2^n

Abs(x) == IF x < 0 THEN -x ELSE x

Sgn(x) == IF x < 0 THEN -1 ELSE 1

RECURSIVE BitLen(_)
BitLen(x) == IF x = 0 THEN 0 ELSE 1 + BitLen(x \div 2)

FNum(m, e) == [cls |-> "num", m |-> m, e |-> e]
FZero == FNum(0, EMin)
FInf(s) == [cls |-> "inf", m |-> s, e |-> 0]
FNaN == [cls |-> "nan", m |-> 0, e |-> 0]

IsNaN(a) == a.cls = "nan"
IsInf(a) == a.cls = "inf"
IsNum(a) == a.cls = "num"

\* Finish a rounded magnitude: overflow gives an infinity.
FPack(s, q, e) ==
    IF q = 0 THEN FZero
    ELSE IF e > EMax THEN FInf(s)
    ELSE FNum(s * q, e)

\* Round-to-nearest-even of quotient q with remainder r against half, and
\* the carry into the next binade.
FCarry(s, q1, e) ==
    IF q1 = Pow2(MantBits) THEN FPack(s, Pow2(MantBits - 1), e + 1) ELSE FPack(s, q1, e)

FRoundQuot(s, q, r, half, e) ==
    FCarry(s, IF r > half \/ (r = half /\ q % 2 = 1) THEN q + 1 ELSE q, e)

FRoundBy(s, S, e, sh) ==
    IF sh <= 0 THEN FPack(s, S * Pow2(-sh), e + sh)
    ELSE IF sh > 31 THEN FZero
    ELSE IF sh = 31 THEN (IF S > Pow2(30) THEN FPack(s, 1, e + sh) ELSE FZero)
    ELSE FRoundQuot(s, S \div Pow2(sh), S % Pow2(sh), Pow2(sh - 1), e + sh)

\* Bits to drop from an n-bit magnitude at exponent e: down to MantBits, or
\* more where the result is subnormal.
RoundShift(n, e) == IF e + n - MantBits < EMin THEN EMin - e ELSE n - MantBits

\* The f32 nearest to s * S * 2^e, for 0 <= S < 2^31.  When S was truncated
\* by the caller its lowest bit is a sticky bit and S has at least 26 bits.
FRound(s, S, e) ==
    IF S = 0 THEN FZero ELSE FRoundBy(s, S, e, RoundShift(BitLen(S), e))

FFromInt(n) == FRound(Sgn(n), Abs(n), 0)

FNeg(a) == IF IsNum(a) THEN FNum(-a.m, a.e)
           ELSE IF IsInf(a) THEN FInf(-a.m) ELSE a

\* x shifted right by d bits, the bits shifted out or-ed into the lowest bit.
StickyBit(q, r) == IF r # 0 /\ q % 2 = 0 THEN q + 1 ELSE q

ShiftSticky(x, d) ==
    IF d = 0 THEN x
    ELSE IF d > 30 THEN (IF x = 0 THEN 0 ELSE 1)
    ELSE StickyBit(x \div Pow2(d), x % Pow2(d))

FSigned(S, e) == FRound(Sgn(S), Abs(S), e)

\* hi.e >= lo.e; three guard bits
FAddAligned(hi, lo) ==
    FSigned(hi.m * 8 + Sgn(lo.m) * ShiftSticky(Abs(lo.m) * 8, hi.e - lo.e), hi.e - 3)

FAdd(a, b) ==
    IF IsNaN(a) \/ IsNaN(b) THEN FNaN
    ELSE IF IsInf(a) THEN (IF IsInf(b) /\ b.m # a.m THEN FNaN ELSE a)
    ELSE IF IsInf(b) THEN b
    ELSE IF a.m = 0 THEN b
    ELSE IF b.m = 0 THEN a
    ELSE IF a.e >= b.e THEN FAddAligned(a, b) ELSE FAddAligned(b, a)

FSub(a, b) == FAdd(a, FNeg(b))

\* x shifted left until it has 24 bits, with the shift.
NormalizedBy(x, k) == <<x * Pow2(k), k>>
Normalized(x) == NormalizedBy(x, MantBits - BitLen(x))

\* x * y for 24-bit x and y as a 30-bit magnitude with a sticky bit, times
\* 2^19, by 12-bit halves so that no product leaves 32 bits.
MulSticky(H, rest) ==
    2 * (H * 16 + (rest \div Pow2(20))) + (IF rest % Pow2(20) # 0 THEN 1 ELSE 0)

MulTop(hh, u, l0) == MulSticky(hh + (u \div 4096), (u % 4096) * 4096 + l0)

MulParts(x1, x0, y1, y0) ==
    MulTop(x1 * y1, x1 * y0 + x0 * y1 + ((x0 * y0) \div 4096), (x0 * y0) % 4096)

MulMag(x, y) == MulParts(x \div 4096, x % 4096, y \div 4096, y % 4096)

FMulNorm(s, na, nb, e) == FRound(s, MulMag(na[1], nb[1]), e - na[2] - nb[2] + 19)

FMul(a, b) ==
    IF IsNaN(a) \/ IsNaN(b) THEN FNaN
    ELSE IF IsInf(a) \/ IsInf(b) THEN
        (IF a.m = 0 \/ b.m = 0 THEN FNaN ELSE FInf(Sgn(a.m) * Sgn(b.m)))
    ELSE IF a.m = 0 \/ b.m = 0 THEN FZero
    ELSE FMulNorm(Sgn(a.m) * Sgn(b.m), Normalized(Abs(a.m)), Normalized(Abs(b.m)), a.e + b.e)

\* Long division: n more quotient bits of r / d appended to q.
RECURSIVE DivBits(_, _, _, _)
DivBits(q, r, d, n) ==
    IF n = 0 THEN <<q, r>>
    ELSE IF 2 * r >= d THEN DivBits(2 * q + 1, 2 * r - d, d, n - 1)
    ELSE DivBits(2 * q, 2 * r, d, n - 1)

FDivQuot(s, qr, e) == FRound(s, 2 * qr[1] + (IF qr[2] # 0 THEN 1 ELSE 0), e)

FDivNorm(s, na, nb, e) ==
    FDivQuot(s, DivBits(na[1] \div nb[1], na[1] % nb[1], nb[1], 26), e - na[2] + nb[2] - 27)

FDiv(a, b) ==
    IF IsNaN(a) \/ IsNaN(b) THEN FNaN
    ELSE IF IsInf(a) THEN (IF IsInf(b) THEN FNaN ELSE FInf(a.m * Sgn(b.m)))
    ELSE IF IsInf(b) THEN FZero
    ELSE IF b.m = 0 THEN (IF a.m = 0 THEN FNaN ELSE FInf(Sgn(a.m)))
    ELSE IF a.m = 0 THEN FZero
    ELSE FDivNorm(Sgn(a.m) * Sgn(b.m), Normalized(Abs(a.m)), Normalized(Abs(b.m)), a.e - b.e)

\* Rust's == and < on f32.
FEq(a, b) == ~IsNaN(a) /\ ~IsNaN(b) /\ a = b

FLt(a, b) ==
    IF IsNaN(a) \/ IsNaN(b) THEN FALSE
    ELSE IF IsInf(a) THEN a.m < 0 /\ a # b
    ELSE IF IsInf(b) THEN b.m > 0
    ELSE IF Sgn(a.m) # Sgn(b.m) \/ a.m = 0 \/ b.m = 0 THEN
        (IF a.m = 0 THEN b.m > 0 ELSE IF b.m = 0 THEN a.m < 0 ELSE a.m < b.m)
    ELSE IF a.e # b.e THEN (IF a.m > 0 THEN a.e < b.e ELSE a.e > b.e)
    ELSE a.m < b.m

FLe(a, b) == FLt(a, b) \/ FEq(a, b)


F(n) == FFromInt(n)
F1 == F(1)
F3 == F(3)
F5 == F(5)
F50 == F(50)

\* The f32 literal 0.8 (0x3F4CCCCD) and 1.25.
F0_8 == FNum(13421773, -24)
F1_25 == FNum(10485760, -23)

(***************************************************************************)
(* State.                                                                  *)
(***************************************************************************)
VARIABLES
    variant,            \* "wgpu" (procedural) or "wgpu_svg"
    scene,              \* SceneParams / SceneGlobals
    control_flow,       \* winit's ControlFlow as the loop holds it
    loop_phase,         \* where winit's loop is within its iteration
    event,              \* the event handed to the closure by the last step
    counts,             \* closure calls so far, by kind of event
    gpu,                \* swap chain, size-dependent textures, uniform buffers
    cpu_primitives,     \* the procedural variant's primitive table
    frame_count,        \* the procedural variant's frame counter (f32)
    ops,                \* GPU commands issued by the last closure call
    since_draw,         \* resize events and surface creations since the last draw
    msaa_samples,       \* the SVG variant's parsed --msaa value
    hidpi_factor,       \* what window.hidpi_factor() answers
    mesh_ranges,        \* index ranges of the static mesh the loop draws
    setup,              \* the setup phase: tessellation into the mesh and tables
    smooth,             \* one smoothing computation (current, target, k)
    conv                \* one PathConvIter over a path's segments

loopVars == <<variant, scene, control_flow, loop_phase, event, counts, gpu,
              cpu_primitives, frame_count, ops, since_draw, msaa_samples,
              hidpi_factor, mesh_ranges>>
vars == <<variant, scene, control_flow, loop_phase, event, counts, gpu,
          cpu_primitives, frame_count, ops, since_draw, msaa_samples,
          hidpi_factor, mesh_ranges, setup, smooth, conv>>

(***************************************************************************)
(* Exponential smoothing, the tail of the procedural update_inputs.        *)
(***************************************************************************)
\* variants of the smoothing line that the properties below must tell apart
SmoothStepScaled(current, target, k) == FAdd(current, FMul(FSub(target, current), k))
SmoothStepBiased(current, target, k) == FAdd(current, FDiv(target, k))

SmoothStep(current, target, k) == FAdd(current, FDiv(FSub(target, current), k))

Vec(x, y) == [x |-> x, y |-> y]
VecSmoothStep(current, target, k) ==
    Vec(SmoothStep(current.x, target.x, k), SmoothStep(current.y, target.y, k))

Smoothed(sc) ==
    [sc EXCEPT !.zoom = SmoothStep(sc.zoom, sc.target_zoom, F3),
               !.scroll = VecSmoothStep(sc.scroll, sc.target_scroll, F3),
               !.stroke_width = SmoothStep(sc.stroke_width, sc.target_stroke_width, F5)]

(***************************************************************************)
(* Events.                                                                 *)
(***************************************************************************)
LogicalSize(w, h) == [width |-> w, height |-> h]
NoSize == LogicalSize(FZero, FZero)
NoPos == Vec(FZero, FZero)
Ev(t, k, s, p) == [type |-> t, key |-> k, size |-> s, position |-> p]

EvNone == Ev("None", "None", NoSize, NoPos)
EvNewEvents == Ev("NewEvents", "None", NoSize, NoPos)
EvEventsCleared == Ev("EventsCleared", "None", NoSize, NoPos)
EvLoopDestroyed == Ev("LoopDestroyed", "None", NoSize, NoPos)
EvDestroyed == Ev("Destroyed", "None", NoSize, NoPos)
EvCloseRequested == Ev("CloseRequested", "None", NoSize, NoPos)
EvKeyReleased == Ev("KeyReleased", "None", NoSize, NoPos)
EvCursorMoved(p) == Ev("CursorMoved", "None", NoSize, p)
EvResized(s) == Ev("Resized", "None", s, NoPos)
EvKeyPressed(k) == Ev("KeyPressed", k, NoSize, NoPos)

Keys == {"Escape", "PageDown", "PageUp", "Left", "Right", "Up", "Down",
         "P", "W", "B", "A", "Z", "F1"}
CursorPositions == {Vec(F(300), F(5))}
WindowSizes == {LogicalSize(F(640), F(480)), LogicalSize(F(1024), F(768))}
HidpiFactors == {2}

WindowEvents ==
    {EvDestroyed, EvCloseRequested, EvKeyReleased}
    \cup {EvCursorMoved(p) : p \in CursorPositions}
    \cup {EvResized(s) : s \in WindowSizes}
    \cup {EvKeyPressed(k) : k \in Keys}

(***************************************************************************)
(* update_inputs of the procedural variant.  The result carries the        *)
(* returned bool and the two &mut arguments as the call leaves them.       *)
(***************************************************************************)
UpdateResult(ret, cf, sc) == [ret |-> ret, control_flow |-> cf, scene |-> sc]

\* variant: the arrow keys divide by the smoothed zoom
KeySceneByZoom(key, sc) ==
    CASE key = "PageDown" -> [sc EXCEPT !.target_zoom = FMul(@, F0_8)]
      [] key = "PageUp" -> [sc EXCEPT !.target_zoom = FMul(@, F1_25)]
      [] key = "Left" -> [sc EXCEPT !.target_scroll.x = FSub(@, FDiv(F50, sc.zoom))]
      [] key = "Right" -> [sc EXCEPT !.target_scroll.x = FAdd(@, FDiv(F50, sc.zoom))]
      [] key = "Up" -> [sc EXCEPT !.target_scroll.y = FSub(@, FDiv(F50, sc.zoom))]
      [] key = "Down" -> [sc EXCEPT !.target_scroll.y = FAdd(@, FDiv(F50, sc.zoom))]
      [] key = "P" -> [sc EXCEPT !.show_points = ~@]
      [] key = "W" -> [sc EXCEPT !.show_wireframe = ~@]
      [] key = "B" -> [sc EXCEPT !.draw_background = ~@]
      [] key = "A" -> [sc EXCEPT !.target_stroke_width = FDiv(@, F0_8)]
      [] key = "Z" -> [sc EXCEPT !.target_stroke_width = FMul(@, F0_8)]
      [] OTHER -> sc

\* variant: zooming in stops at 1000
KeySceneClamped(key, sc) ==
    CASE key = "PageDown" -> [sc EXCEPT !.target_zoom = FMul(@, F0_8)]
      [] key = "PageUp" ->
            [sc EXCEPT !.target_zoom = IF FLt(F(1000), FMul(@, F1_25)) THEN F(1000)
                                       ELSE FMul(@, F1_25)]
      [] key = "Left" ->
            [sc EXCEPT !.target_scroll.x = FSub(@, FDiv(F50, sc.target_zoom))]
      [] key = "Right" ->
            [sc EXCEPT !.target_scroll.x = FAdd(@, FDiv(F50, sc.target_zoom))]
      [] key = "Up" ->
            [sc EXCEPT !.target_scroll.y = FSub(@, FDiv(F50, sc.target_zoom))]
      [] key = "Down" ->
            [sc EXCEPT !.target_scroll.y = FAdd(@, FDiv(F50, sc.target_zoom))]
      [] key = "P" -> [sc EXCEPT !.show_points = ~@]
      [] key = "W" -> [sc EXCEPT !.show_wireframe = ~@]
      [] key = "B" -> [sc EXCEPT !.draw_background = ~@]
      [] key = "A" -> [sc EXCEPT !.target_stroke_width = FDiv(@, F0_8)]
      [] key = "Z" -> [sc EXCEPT !.target_stroke_width = FMul(@, F0_8)]
      [] OTHER -> sc

KeyScene(key, sc) ==
    CASE key = "PageDown" -> [sc EXCEPT !.target_zoom = FMul(@, F0_8)]
      [] key = "PageUp" -> [sc EXCEPT !.target_zoom = FMul(@, F1_25)]
      [] key = "Left" ->
            [sc EXCEPT !.target_scroll.x = FSub(@, FDiv(F50, sc.target_zoom))]
      [] key = "Right" ->
            [sc EXCEPT !.target_scroll.x = FAdd(@, FDiv(F50, sc.target_zoom))]
      [] key = "Up" ->
            [sc EXCEPT !.target_scroll.y = FSub(@, FDiv(F50, sc.target_zoom))]
      [] key = "Down" ->
            [sc EXCEPT !.target_scroll.y = FAdd(@, FDiv(F50, sc.target_zoom))]
      [] key = "P" -> [sc EXCEPT !.show_points = ~@]
      [] key = "W" -> [sc EXCEPT !.show_wireframe = ~@]
      [] key = "B" -> [sc EXCEPT !.draw_background = ~@]
      [] key = "A" -> [sc EXCEPT !.target_stroke_width = FDiv(@, F0_8)]
      [] key = "Z" -> [sc EXCEPT !.target_stroke_width = FMul(@, F0_8)]
      [] OTHER -> sc

\* variant: the catch-all arm reports "render now"
update_inputs_no_poll(ev, cf, sc) ==
    IF ev.type = "EventsCleared" THEN UpdateResult(FALSE, cf, sc)
    ELSE IF ev.type \in {"Destroyed", "CloseRequested"} THEN UpdateResult(FALSE, "Exit", sc)
    ELSE IF ev.type = "KeyPressed" /\ ev.key = "Escape" THEN UpdateResult(FALSE, "Exit", sc)
    ELSE UpdateResult(FALSE, "Poll", Smoothed(sc))

update_inputs(ev, cf, sc) ==
    IF ev.type = "EventsCleared" THEN UpdateResult(FALSE, cf, sc)
    ELSE IF ev.type \in {"Destroyed", "CloseRequested"} THEN UpdateResult(FALSE, "Exit", sc)
    ELSE IF ev.type = "KeyPressed" /\ ev.key = "Escape" THEN UpdateResult(FALSE, "Exit", sc)
    ELSE LET folded ==
                 CASE ev.type = "CursorMoved" -> [sc EXCEPT !.cursor_position = ev.position]
                   [] ev.type = "Resized" ->
                         [sc EXCEPT !.window_size = ev.size, !.size_changed = TRUE]
                   [] ev.type = "KeyPressed" -> KeyScene(ev.key, sc)
                   [] OTHER -> sc
         IN  UpdateResult(TRUE, "Poll", Smoothed(folded))


(***************************************************************************)
(* update_inputs of the SVG variant: no cursor arm, no smoothing.          *)
(***************************************************************************)
KeySceneSvg(key, sc) ==
    CASE key = "PageDown" -> [sc EXCEPT !.zoom = FMul(@, F0_8)]
      [] key = "PageUp" -> [sc EXCEPT !.zoom = FMul(@, F1_25)]
      [] key = "Left" -> [sc EXCEPT !.pan[1] = FSub(@, FDiv(F50, @))]
      [] key = "Right" -> [sc EXCEPT !.pan[1] = FAdd(@, FDiv(F50, @))]
      [] key = "Up" -> [sc EXCEPT !.pan[2] = FAdd(@, FDiv(F50, @))]
      [] key = "Down" -> [sc EXCEPT !.pan[2] = FSub(@, FDiv(F50, @))]
      [] key = "W" -> [sc EXCEPT !.wireframe = ~@]
      [] OTHER -> sc

update_inputs_svg(ev, cf, sc) ==
    IF ev.type = "EventsCleared" THEN UpdateResult(FALSE, cf, sc)
    ELSE IF ev.type \in {"Destroyed", "CloseRequested"} THEN UpdateResult(FALSE, "Exit", sc)
    ELSE IF ev.type = "KeyPressed" /\ ev.key = "Escape" THEN UpdateResult(FALSE, "Exit", sc)
    ELSE LET folded ==
                 CASE ev.type = "Resized" ->
                         [sc EXCEPT !.window_size = ev.size, !.size_changed = TRUE]
                   [] ev.type = "KeyPressed" -> KeySceneSvg(ev.key, sc)
                   [] OTHER -> sc
         IN  UpdateResult(TRUE, "Poll", folded)

(***************************************************************************)
(* The presentation surface.                                               *)
(***************************************************************************)
None == <<>>
Some(v) == <<v>>

\* LogicalSize::to_physical(dpi) followed by .round() as u32, for the
\* non-negative sizes below 2^23 a window can have.
RoundedQuotient(M, d) == (M \div d) + (IF 2 * (M % d) >= d THEN 1 ELSE 0)

PhysicalPixels(x, dpi) ==
    IF ~IsNum(x) \/ x.m <= 0 THEN 0
    ELSE IF x.e >= 0 THEN x.m * dpi * Pow2(x.e)
    ELSE IF -x.e > 30 THEN 0
    ELSE RoundedQuotient(x.m * dpi, Pow2(-x.e))

Extent(w, h) == [width |-> w, height |-> h]
PhysicalExtent(size, dpi) ==
    Extent(PhysicalPixels(size.width, dpi), PhysicalPixels(size.height, dpi))

(***************************************************************************)
(* The procedural variant's primitive table and its per-frame animation.   *)
(* Colours and translations are sines and remainders of the frame counter  *)
(* and the id; they are kept symbolic (kind, id, frame counter).           *)
(***************************************************************************)
PRIM_BUFFER_LEN == 64
num_instances == PRIM_BUFFER_LEN - 1
stroke_prim_id == 0
fill_prim_id == 1

Sym(kind, idx, at) == [kind |-> kind, idx |-> idx, at |-> at]
Primitive(color, translate, z_index, width) ==
    [color |-> color, translate |-> translate, z_index |-> z_index, width |-> width]

\* The table is PRIM_BUFFER_LEN records of which only record 0's width and
\* colour and the translations of records 2..num_instances ever change, all
\* from one frame's scene and frame counter.  The state keeps that frame
\* (drawn_at: None before the first frame, else <<stroke_width, frame_count>>);
\* PrimitiveTable spells the table out.
InitialPrimitives == [drawn_at |-> None]

\* variant: the table is left as it was built
AnimatedPrimitivesSkip(prims, sc, fc) == prims

AnimatedPrimitives(prims, sc, fc) ==
    [prims EXCEPT !.drawn_at = Some(<<sc.stroke_width, fc>>)]

\* variant: the decorations are stacked in descending order of id
PrimitiveTableDescending(prims) ==
    [idx \in 0..(PRIM_BUFFER_LEN - 1) |->
        IF idx = stroke_prim_id THEN
            IF prims.drawn_at = None
            THEN Primitive(Sym("black", idx, FZero), Sym("zero", idx, FZero),
                           num_instances + 2, F(1))
            ELSE Primitive(Sym("stroke_sines", idx, prims.drawn_at[1][2]),
                           Sym("zero", idx, FZero),
                           num_instances + 2, prims.drawn_at[1][1])
        ELSE IF idx = fill_prim_id THEN
            Primitive(Sym("white", idx, FZero), Sym("zero", idx, FZero), num_instances + 1, FZero)
        ELSE IF idx \in (fill_prim_id + 1)..(fill_prim_id + num_instances - 1) THEN
            Primitive(Sym("instance", idx, FZero),
                      IF prims.drawn_at # None /\ idx \in 2..num_instances
                      THEN Sym("sines", idx, prims.drawn_at[1][2])
                      ELSE Sym("zero", idx, FZero),
                      num_instances + 3 - idx, FZero)
        ELSE
            Primitive(Sym("red", idx, FZero),
                      IF prims.drawn_at # None /\ idx \in 2..num_instances
                      THEN Sym("sines", idx, prims.drawn_at[1][2])
                      ELSE Sym("zero", idx, FZero),
                      0, FZero)]

PrimitiveTable(prims) ==
    [idx \in 0..(PRIM_BUFFER_LEN - 1) |->
        IF idx = stroke_prim_id THEN
            IF prims.drawn_at = None
            THEN Primitive(Sym("black", idx, FZero), Sym("zero", idx, FZero),
                           num_instances + 2, F(1))
            ELSE Primitive(Sym("stroke_sines", idx, prims.drawn_at[1][2]),
                           Sym("zero", idx, FZero),
                           num_instances + 2, prims.drawn_at[1][1])
        ELSE IF idx = fill_prim_id THEN
            Primitive(Sym("white", idx, FZero), Sym("zero", idx, FZero), num_instances + 1, FZero)
        ELSE IF idx \in (fill_prim_id + 1)..(fill_prim_id + num_instances - 1) THEN
            Primitive(Sym("instance", idx, FZero),
                      IF prims.drawn_at # None /\ idx \in 2..num_instances
                      THEN Sym("sines", idx, prims.drawn_at[1][2])
                      ELSE Sym("zero", idx, FZero),
                      idx + 1, FZero)
        ELSE
            Primitive(Sym("red", idx, FZero),
                      IF prims.drawn_at # None /\ idx \in 2..num_instances
                      THEN Sym("sines", idx, prims.drawn_at[1][2])
                      ELSE Sym("zero", idx, FZero),
                      0, FZero)]

Globals(sc) ==
    [resolution |-> <<sc.window_size.width, sc.window_size.height>>,
     scroll_offset |-> <<sc.scroll.x, sc.scroll.y>>,
     zoom |-> sc.zoom]

(***************************************************************************)
(* The closure of event_loop.run, procedural variant.  st holds everything *)
(* the closure captured; dpi is what window.hidpi_factor() answers.        *)
(***************************************************************************)
RecreateOps(ext, texture) ==
    <<<<"create_swap_chain", ext.width, ext.height>>>>
    \o (IF texture THEN <<<<"create_texture", ext.width, ext.height>>>> ELSE <<>>)

\* variant: the fill range drawn once, not instanced
DrawOpsSingle(sc, ranges) ==
    <<<<"set_pipeline", IF sc.show_wireframe THEN "wireframe" ELSE "render">>,
      <<"draw_indexed", ranges.fill_range[1], ranges.fill_range[2], 0, 1>>,
      <<"draw_indexed", ranges.stroke_range[1], ranges.stroke_range[2], 0, 1>>>>
    \o (IF sc.draw_background
        THEN <<<<"set_pipeline", "bg">>, <<"draw_indexed", 0, 6, 0, 1>>>>
        ELSE <<>>)

\* geometry.glsl.vert: the primitive a vertex reads is a_prim_id + gl_InstanceIndex
ShaderPrimId(prim_id, instance) == prim_id + instance

DrawOps(sc, ranges) ==
    <<<<"set_pipeline", IF sc.show_wireframe THEN "wireframe" ELSE "render">>,
      <<"draw_indexed", ranges.fill_range[1], ranges.fill_range[2], 0, num_instances>>,
      <<"draw_indexed", ranges.stroke_range[1], ranges.stroke_range[2], 0, 1>>>>
    \o (IF sc.draw_background
        THEN <<<<"set_pipeline", "bg">>, <<"draw_indexed", 0, 6, 0, 1>>>>
        ELSE <<>>)

Recreated(g, ext) ==
    [g EXCEPT !.swap_chain_desc = ext, !.swap_chain = Some(ext),
              !.depth_texture_view = Some(ext)]

\* variant: the tables are copied once the render pass has been recorded
RenderFrameOnLateCopy(st, g1, pre, prims) ==
    [st EXCEPT !.scene.size_changed = FALSE,
               !.gpu = [g1 EXCEPT !.globals_ubo = Some(Globals(st.scene)),
                                  !.prims_ubo = Some(prims)],
               !.cpu_primitives = prims,
               !.frame_count = FAdd(st.frame_count, F1),
               !.ops = pre
                       \o <<<<"write_buffer", "globals">>, <<"write_buffer", "prims">>,
                            <<"begin_render_pass">>>>
                       \o DrawOps(st.scene, st.mesh_ranges)
                       \o <<<<"copy_buffer_to_buffer", "globals">>,
                            <<"copy_buffer_to_buffer", "prims">>,
                            <<"submit">>>>]

\* the frame from get_next_texture on: g1 and pre are the surface and the
\* commands after the size_changed block
RenderFrameOn(st, g1, pre, prims) ==
    IF g1.depth_texture_view = None THEN
        \* depth_texture_view.as_ref().unwrap() panics; nothing is submitted
        [st EXCEPT !.scene.size_changed = FALSE, !.gpu = g1, !.cpu_primitives = prims,
                   !.ops = pre \o <<<<"write_buffer", "globals">>, <<"write_buffer", "prims">>,
                                    <<"copy_buffer_to_buffer", "globals">>,
                                    <<"copy_buffer_to_buffer", "prims">>>>,
                   !.panicked = TRUE]
    ELSE
        [st EXCEPT !.scene.size_changed = FALSE,
                   !.gpu = [g1 EXCEPT !.globals_ubo = Some(Globals(st.scene)),
                                      !.prims_ubo = Some(prims)],
                   !.cpu_primitives = prims,
                   !.frame_count = FAdd(st.frame_count, F1),
                   !.ops = pre
                           \o <<<<"write_buffer", "globals">>, <<"write_buffer", "prims">>,
                                <<"copy_buffer_to_buffer", "globals">>,
                                <<"copy_buffer_to_buffer", "prims">>,
                                <<"begin_render_pass">>>>
                           \o DrawOps(st.scene, st.mesh_ranges)
                           \o <<<<"submit">>>>]

\* variant: the surface is created for the first frame only
RenderFrameOnce(st, dpi) ==
    RenderFrameOn(st,
        IF st.gpu.depth_texture_view = None
        THEN Recreated(st.gpu, PhysicalExtent(st.scene.window_size, dpi)) ELSE st.gpu,
        (IF st.gpu.depth_texture_view = None
         THEN RecreateOps(PhysicalExtent(st.scene.window_size, dpi), TRUE) ELSE <<>>)
        \o <<<<"get_next_texture">>>>,
        AnimatedPrimitives(st.cpu_primitives, st.scene, st.frame_count))

RenderFrame(st, dpi) ==
    RenderFrameOn(st,
        IF st.scene.size_changed
        THEN Recreated(st.gpu, PhysicalExtent(st.scene.window_size, dpi)) ELSE st.gpu,
        (IF st.scene.size_changed
         THEN RecreateOps(PhysicalExtent(st.scene.window_size, dpi), TRUE) ELSE <<>>)
        \o <<<<"get_next_texture">>>>,
        AnimatedPrimitives(st.cpu_primitives, st.scene, st.frame_count))

\* the closure's state with update_inputs' writes applied
Updated(r, st) ==
    [st EXCEPT !.scene = r.scene, !.control_flow = r.control_flow, !.ops = <<>>]

\* variant: the surface is recreated as soon as a resize has been folded in
ClosureAfterEager(r, st, dpi) ==
    IF r.ret
    THEN [Updated(r, st) EXCEPT
            !.ops = IF r.scene.size_changed
                    THEN RecreateOps(PhysicalExtent(r.scene.window_size, dpi), TRUE)
                    ELSE <<>>]
    ELSE RenderFrame(Updated(r, st), dpi)

ClosureAfter(r, st, dpi) == IF r.ret THEN Updated(r, st) ELSE RenderFrame(Updated(r, st), dpi)

Closure(ev, st, dpi) == ClosureAfter(update_inputs(ev, st.control_flow, st.scene), st, dpi)

(***************************************************************************)
(* The closure of event_loop.run, SVG variant.                             *)
(***************************************************************************)
GpuGlobals(sc) ==
    [aspect_ratio |-> FDiv(sc.window_size.width, sc.window_size.height),
     zoom |-> <<sc.zoom, sc.zoom>>,
     pan |-> sc.pan]

RecreatedSvg(g, ext, msaa) ==
    [g EXCEPT !.swap_chain_desc = ext, !.swap_chain = Some(ext),
              !.msaa_texture = IF msaa THEN Some(ext) ELSE @]

\* variant: the transform and primitive tables are copied again every frame
RenderFrameSvgOnRecopy(st, re, g1, pre) ==
    IF g1.swap_chain = None THEN
        [st EXCEPT !.scene.size_changed = IF re THEN FALSE ELSE @,
                   !.gpu = g1, !.ops = pre, !.panicked = TRUE]
    ELSE
    [st EXCEPT !.scene.size_changed = IF re THEN FALSE ELSE @,
               !.gpu = [g1 EXCEPT !.globals_ubo = Some(GpuGlobals(st.scene))],
               !.ops = pre
                       \o <<<<"get_next_texture">>,
                            <<"write_buffer", "globals">>,
                            <<"copy_buffer_to_buffer", "globals">>,
                            <<"copy_buffer_to_buffer", "transforms">>,
                            <<"copy_buffer_to_buffer", "prims">>,
                            <<"begin_render_pass">>,
                            <<"set_pipeline",
                              IF st.scene.wireframe THEN "wireframe" ELSE "render">>,
                            <<"draw_indexed", 0, st.mesh_ranges.indices_len, 0, 1>>,
                            <<"submit">>>>]

RenderFrameSvgOn(st, re, g1, pre) ==
    IF g1.swap_chain = None THEN
        \* swap_chain.as_mut().unwrap() panics; nothing is recorded
        [st EXCEPT !.scene.size_changed = IF re THEN FALSE ELSE @,
                   !.gpu = g1, !.ops = pre, !.panicked = TRUE]
    ELSE
    [st EXCEPT !.scene.size_changed = IF re THEN FALSE ELSE @,
               !.gpu = [g1 EXCEPT !.globals_ubo = Some(GpuGlobals(st.scene))],
               !.ops = pre
                       \o <<<<"get_next_texture">>,
                            <<"write_buffer", "globals">>,
                            <<"copy_buffer_to_buffer", "globals">>,
                            <<"begin_render_pass">>,
                            <<"set_pipeline",
                              IF st.scene.wireframe THEN "wireframe" ELSE "render">>,
                            <<"draw_indexed", 0, st.mesh_ranges.indices_len, 0, 1>>,
                            <<"submit">>>>]

RenderFrameSvgIf(st, re, ext) ==
    RenderFrameSvgOn(st, re,
        IF re THEN RecreatedSvg(st.gpu, ext, st.msaa_samples > 1) ELSE st.gpu,
        IF re THEN RecreateOps(ext, st.msaa_samples > 1) ELSE <<>>)

RenderFrameSvg(st, dpi) ==
    RenderFrameSvgIf(st, st.scene.size_changed \/ st.gpu.swap_chain = None,
                     PhysicalExtent(st.scene.window_size, dpi))

ClosureSvgAfter(r, st, dpi) ==
    IF r.ret THEN Updated(r, st) ELSE RenderFrameSvg(Updated(r, st), dpi)

ClosureSvg(ev, st, dpi) ==
    ClosureSvgAfter(update_inputs_svg(ev, st.control_flow, st.scene), st, dpi)

(***************************************************************************)
(* Initial state of the loops: main() up to event_loop.run.                *)
(***************************************************************************)
DEFAULT_WINDOW_WIDTH == 800
DEFAULT_WINDOW_HEIGHT == 800
WINDOW_SIZE == 800

\* variant: the scene starts with size_changed clear
InitialSceneUnchanged ==
    [target_zoom |-> F(5), zoom |-> F(5),
     target_scroll |-> Vec(F(70), F(70)), scroll |-> Vec(F(70), F(70)),
     show_points |-> FALSE, show_wireframe |-> FALSE,
     stroke_width |-> F(1), target_stroke_width |-> F(1),
     draw_background |-> TRUE,
     cursor_position |-> Vec(FZero, FZero),
     window_size |-> LogicalSize(F(DEFAULT_WINDOW_WIDTH), F(DEFAULT_WINDOW_HEIGHT)),
     size_changed |-> FALSE]

InitialScene ==
    [target_zoom |-> F(5), zoom |-> F(5),
     target_scroll |-> Vec(F(70), F(70)), scroll |-> Vec(F(70), F(70)),
     show_points |-> FALSE, show_wireframe |-> FALSE,
     stroke_width |-> F(1), target_stroke_width |-> F(1),
     draw_background |-> TRUE,
     cursor_position |-> Vec(FZero, FZero),
     window_size |-> LogicalSize(F(DEFAULT_WINDOW_WIDTH), F(DEFAULT_WINDOW_HEIGHT)),
     size_changed |-> TRUE]

\* f32::max: a NaN operand is ignored, NaN only when both are
FMax(a, b) ==
    IF IsNaN(a) THEN b
    ELSE IF IsNaN(b) THEN a
    ELSE IF FLt(a, b) THEN b ELSE a

InitialWindowSize(scale) ==
    IF FLt(scale, F(1))
    THEN LogicalSize(F(WINDOW_SIZE), FMul(F(WINDOW_SIZE), scale))
    ELSE LogicalSize(F(WINDOW_SIZE), FDiv(F(WINDOW_SIZE), scale))

InitialSceneSvg(vb) ==
    [zoom |-> FDiv(F(2), FMax(vb[1], vb[2])),
     pan |-> <<FDiv(vb[1], F(-2)), FDiv(vb[2], F(-2))>>,
     window_size |-> InitialWindowSize(FDiv(vb[1], vb[2])),
     wireframe |-> FALSE,
     size_changed |-> TRUE]

\* --msaa: absent, or the parsed u32.
MsaaSamples(arg) == IF arg = None THEN 1 ELSE IF arg[1] < 1 THEN arg[1] ELSE 1

ViewBoxes == {<<F(200), F(100)>>}
MsaaArgs == {None, Some(0), Some(4)}
InitialInnerSizes == {LogicalSize(F(1024), F(768))}


(***************************************************************************)
(* Setup: tessellation.  The tessellators and BuffersBuilder are lyon's;   *)
(* a pass is what one tessellate call reports to the builder: the vertices *)
(* handed to the vertex constructor, the triangles, and Ok or Err.         *)
(***************************************************************************)
MaxTessVertices == 1
MaxTriangles == 1

TessVertex(p, n, adv) == [position |-> p, normal |-> n, advancement |-> adv]
GoodVertex == TessVertex(Vec(F(1), F(2)), Vec(FZero, F(1)), F(3))
TessVertexSamples ==
    {GoodVertex,
     [GoodVertex EXCEPT !.position.x = FNaN],
     [GoodVertex EXCEPT !.normal.y = FNaN]}

SeqsUpTo(S, n) == UNION {[1..k -> S] : k \in 0..n}

\* What a tessellate call can do: emit vertices and triangles and return Ok,
\* or fail after some vertices (the builder then discards the pass).
TessOutputsOf(samples) ==
    {[vertices |-> vs, triangles |-> t, result |-> "Ok"] :
        vs \in SeqsUpTo(samples, MaxTessVertices), t \in 0..MaxTriangles}
    \cup {[vertices |-> vs, triangles |-> 0, result |-> "Err"] :
        vs \in SeqsUpTo(samples, MaxTessVertices)}

TessOutputs == TessOutputsOf(TessVertexSamples)

\* the SVG variant's constructor reads the position only
SvgTessOutputs == TessOutputsOf({GoodVertex, [GoodVertex EXCEPT !.position.x = FNaN]})

\* fill_rectangle: four corners, two triangles
BgOutputs ==
    {[vertices |-> <<v, v, v, v>>, triangles |-> 2, result |-> "Ok"] : v \in TessVertexSamples}

EmptyBuffers == [vertices |-> <<>>, indices |-> <<>>]
Count(v, i) == [vertices |-> v, indices |-> i]

\* A vertex constructor answers with the vertex, or panics.
Built(v) == [panic |-> FALSE, vertex |-> v]
Panic(v) == [panic |-> TRUE, vertex |-> v]

\* One tessellate call into BuffersBuilder(buffers, ctor): begin_geometry,
\* add_vertex per vertex, add_triangle per triangle, then end_geometry (the
\* counts since begin) or abort_geometry (buffers cut back) on Err.
TessellatePass(buffers, made, out, pass) ==
    LET panics == \E i \in DOMAIN made : made[i].panic
        tagged == [i \in DOMAIN made |-> [v |-> made[i].vertex, pass |-> pass]]
        grown  == [vertices |-> buffers.vertices \o tagged,
                   indices |-> buffers.indices \o [i \in 1..(3 * out.triangles) |-> pass]]
    IN  IF panics THEN [buffers |-> buffers, result |-> "Panic", count |-> Count(0, 0)]
        ELSE IF out.result = "Err"
        THEN [buffers |-> buffers, result |-> "Err", count |-> Count(0, 0)]
        ELSE [buffers |-> grown, result |-> "Ok",
              count |-> Count(Len(made), 3 * out.triangles)]

(***************************************************************************)
(* Vertex constructors.                                                    *)
(***************************************************************************)
GpuVertex(p, n, id) == [position |-> <<p.x, p.y>>, normal |-> <<n.x, n.y>>, prim_id |-> id]

\* procedural variant: debug_assert!s, compiled only into debug builds
WithId_new_vertex_fill(id, vertex, debug) ==
    LET v == GpuVertex(vertex.position, vertex.normal, id)
    IN  IF debug /\ (IsNaN(vertex.position.x) \/ IsNaN(vertex.position.y)
                     \/ IsNaN(vertex.normal.x) \/ IsNaN(vertex.normal.y))
        THEN Panic(v) ELSE Built(v)

WithId_new_vertex_stroke(id, vertex, debug) ==
    LET v == GpuVertex(vertex.position, vertex.normal, id)
    IN  IF debug /\ (IsNaN(vertex.position.x) \/ IsNaN(vertex.position.y)
                     \/ IsNaN(vertex.normal.x) \/ IsNaN(vertex.normal.y)
                     \/ IsNaN(vertex.advancement))
        THEN Panic(v) ELSE Built(v)

BgVertexCtor_new_vertex(vertex) ==
    Built([position |-> <<vertex.position.x, vertex.position.y>>])

\* SVG variant: assert!s on the position, in every build
VertexCtor_new_vertex(prim_id, vertex) ==
    LET v == [position |-> <<vertex.position.x, vertex.position.y>>, prim_id |-> prim_id]
    IN  IF IsNaN(vertex.position.x) \/ IsNaN(vertex.position.y) THEN Panic(v) ELSE Built(v)

(***************************************************************************)
(* Setup of the procedural variant: fill pass, stroke pass, the two index  *)
(* ranges, the background rectangle.                                       *)
(***************************************************************************)
\* variant: the fill range taken from the vertex count
FillRangeVertices(fill_count) == <<0, fill_count.vertices>>

FillRange(fill_count) == <<0, fill_count.indices>>
StrokeRange(fill_range, geometry) == <<fill_range[2], Len(geometry.indices)>>

SetupWgpuInit(debug) ==
    [variant |-> "wgpu", pc |-> "fill", debug |-> debug,
     geometry |-> EmptyBuffers, bg_geometry |-> EmptyBuffers,
     fill_count |-> Count(0, 0), fill_range |-> <<0, 0>>, stroke_range |-> <<0, 0>>,
     failed |-> FALSE]        \* a tessellate call has returned Err

FillPass(s, out) ==
    LET made == [i \in DOMAIN out.vertices |->
                    WithId_new_vertex_fill(fill_prim_id, out.vertices[i], s.debug)]
        r    == TessellatePass(s.geometry, made, out, "fill")
    IN  IF r.result = "Ok"
        THEN [s EXCEPT !.geometry = r.buffers, !.fill_count = r.count, !.pc = "stroke"]
        ELSE [s EXCEPT !.pc = "panicked", !.failed = (r.result = "Err")]

StrokePass(s, out) ==
    LET made == [i \in DOMAIN out.vertices |->
                    WithId_new_vertex_stroke(stroke_prim_id, out.vertices[i], s.debug)]
        r    == TessellatePass(s.geometry, made, out, "stroke")
        fr   == FillRange(s.fill_count)
    IN  IF r.result = "Ok"
        THEN [s EXCEPT !.geometry = r.buffers,
                       !.fill_range = fr,
                       !.stroke_range = StrokeRange(fr, r.buffers),
                       !.pc = "bg"]
        ELSE [s EXCEPT !.pc = "panicked", !.failed = (r.result = "Err")]

BackgroundPass(s, out) ==
    LET made == [i \in DOMAIN out.vertices |-> BgVertexCtor_new_vertex(out.vertices[i])]
        r    == TessellatePass(s.bg_geometry, made, out, "bg")
    IN  IF r.result = "Ok"
        THEN [s EXCEPT !.bg_geometry = r.buffers, !.pc = "done"]
        ELSE [s EXCEPT !.pc = "panicked", !.failed = (r.result = "Err")]


(***************************************************************************)
(* Setup of the SVG variant: the walk over the document's path nodes.      *)
(***************************************************************************)
MAX_PRIMITIVES == 512
MAX_TRANSFORMS == 512

\* usvg transforms, kept symbolic; prev_transform starts with NaN in every
\* field, which != makes different from every transform, itself included.
Transforms == {"A", "B", "C"}
NaNTransform == "NaN"
TransformNe(a, b) == a = NaNTransform \/ b = NaNTransform \/ a # b

GpuTransform(t) == [data0 |-> <<t, "a", "b", "c", "d">>, data1 |-> <<t, "e", "f", 0, 0>>]

FALLBACK_COLOR == [red |-> 0, green |-> 0, blue |-> 0]
Red == [red |-> 255, green |-> 0, blue |-> 0]

\* f32 -> u32 cast of a value below 2^24: truncation, negatives and NaN to 0
FToU32(x) ==
    IF ~IsNum(x) \/ x.m <= 0 THEN 0
    ELSE IF x.e >= 0 THEN x.m * Pow2(x.e)
    ELSE IF -x.e > 30 THEN 0
    ELSE x.m \div Pow2(-x.e)

\* variant: the colour packed blue first
GpuPrimitive_new_bgr(transform_idx, color, alpha) ==
    [transform |-> transform_idx,
     color |-> [hi |-> color.blue * 256 + color.green,
                lo |-> color.red * 256 + FToU32(FMul(alpha, F(255)))],
     pad |-> <<0, 0>>]

\* GpuPrimitive::new; the u32 colour word is kept as its two 16-bit halves
GpuPrimitive_new(transform_idx, color, alpha) ==
    LET a  == FToU32(FMul(alpha, F(255)))
        lo == color.blue * 256 + a
        hi == color.red * 256 + color.green + (lo \div 65536)
    IN  [transform |-> transform_idx,
         color |-> [hi |-> hi % 65536, lo |-> lo % 65536],
         pad |-> <<0, 0>>]

PaintColor(paint) == IF paint.kind = "Color" THEN paint.color ELSE FALLBACK_COLOR

Paint(kind, color) == [kind |-> kind, color |-> color]
Fill(paint, opacity) == [paint |-> paint, opacity |-> opacity]
Stroke(paint, opacity) == [paint |-> paint, opacity |-> opacity]
PathNode(t, fill, stroke) == [transform |-> t, fill |-> fill, stroke |-> stroke]

\* convert_stroke: the colour (line options do not reach the tables)
convert_stroke(stroke) == PaintColor(stroke.paint)

SetupSvgInit ==
    [variant |-> "wgpu_svg", pc |-> "walk",
     transforms |-> <<>>, primitives |-> <<>>,
     prev_transform |-> NaNTransform,
     mesh |-> EmptyBuffers,
     nodes |-> <<>>,          \* the path nodes walked so far
     passes |-> 0,            \* tessellation passes run so far
     failed |-> FALSE]        \* a tessellate call has returned Err

\* variant: the length itself
LastIndexOff(seq) == Len(seq)

\* `.len() as u32 - 1`
LastIndex(seq) == Len(seq) - 1

\* variant: a transform is pushed only when no earlier node had it
WalkTransformDedup(s, node) ==
    [s EXCEPT !.transforms = IF \A i \in DOMAIN s.nodes : s.nodes[i].transform # node.transform
                             THEN Append(@, GpuTransform(node.transform)) ELSE @,
              !.prev_transform = node.transform,
              !.nodes = Append(@, node)]

\* the transform block: push unless equal to the previous node's, remember it
WalkTransform(s, node) ==
    [s EXCEPT !.transforms = IF TransformNe(node.transform, s.prev_transform)
                             THEN Append(@, GpuTransform(node.transform)) ELSE @,
              !.prev_transform = node.transform,
              !.nodes = Append(@, node)]

\* variant: every primitive refers to the first transform record
PushPrimitiveRoot(s, color, opacity) ==
    [s EXCEPT !.primitives = Append(@, [prim |-> GpuPrimitive_new(0, color, opacity),
                                        pass |-> s.passes + 1]),
              !.passes = @ + 1]

\* primitives.push(GpuPrimitive::new(transform_idx, color, opacity)); the
\* record remembers which tessellation pass it was pushed for
PushPrimitive(s, color, opacity) ==
    [s EXCEPT !.primitives = Append(@, [prim |-> GpuPrimitive_new(LastIndex(s.transforms),
                                                                  color, opacity),
                                        pass |-> s.passes + 1]),
              !.passes = @ + 1]

\* tessellate_path into BuffersBuilder(mesh, VertexCtor { prim_id: len - 1 })
TessellateSvg(s, out) ==
    TessellatePass(s.mesh,
                   [i \in DOMAIN out.vertices |->
                       VertexCtor_new_vertex(LastIndex(s.primitives), out.vertices[i])],
                   out, s.passes)

\* .expect(..) on the fill pass, `let _ =` on the stroke pass
Expected(s, r) ==
    IF r.result = "Ok" THEN [s EXCEPT !.mesh = r.buffers]
    ELSE [s EXCEPT !.pc = "panicked", !.failed = (r.result = "Err")]

Ignored(s, r) ==
    IF r.result = "Panic" THEN [s EXCEPT !.pc = "panicked"]
    ELSE [s EXCEPT !.mesh = r.buffers, !.failed = @ \/ r.result = "Err"]

FillPushed(s, out) == Expected(s, TessellateSvg(s, out))
StrokePushed(s, out) == Ignored(s, TessellateSvg(s, out))

WalkFill(s, node, out) ==
    IF node.fill = None THEN s
    ELSE FillPushed(PushPrimitive(s, PaintColor(node.fill[1].paint), node.fill[1].opacity), out)

\* variant: a path with a fill strokes under the fill's primitive
WalkStrokeShared(s, node, out) ==
    IF node.stroke = None \/ s.pc = "panicked" THEN s
    ELSE IF node.fill # None THEN StrokePushed(s, out)
    ELSE StrokePushed(PushPrimitive(s, convert_stroke(node.stroke[1]), node.stroke[1].opacity),
                      out)

WalkStroke(s, node, out) ==
    IF node.stroke = None \/ s.pc = "panicked" THEN s
    ELSE StrokePushed(PushPrimitive(s, convert_stroke(node.stroke[1]), node.stroke[1].opacity),
                      out)

\* The body of `for node in rtree.root().descendants()` for one path node;
\* fout and sout are what the fill and the stroke tessellator do with it.
WalkPath(s, node, fout, sout) ==
    WalkStroke(WalkFill(WalkTransform(s, node), node, fout), node, sout)

(***************************************************************************)
(* The event loops.  winit runs the closure once per event: per iteration  *)
(* NewEvents, the window events, then EventsCleared; once the closure has  *)
(* left Exit in control_flow the value sticks, the iteration is finished   *)
(* and LoopDestroyed is the last event.                                    *)
(***************************************************************************)
MaxFrames == 2
MaxResizes == 2
MaxInputs == 1

SampleOut == [vertices |-> <<GoodVertex>>, triangles |-> 1, result |-> "Ok"]
SampleFill == <<Fill(Paint("Color", Red), F(1))>>
SampleStroke == <<Stroke(Paint("Color", Red), F(1))>>

LogoMeshRanges ==
    LET s == BackgroundPass(StrokePass(FillPass(SetupWgpuInit(FALSE), SampleOut), SampleOut),
                            SampleOut)
    IN  [fill_range |-> s.fill_range, stroke_range |-> s.stroke_range]

DocumentMeshRanges ==
    LET s == WalkPath(SetupSvgInit, PathNode("A", SampleFill, SampleStroke), SampleOut, SampleOut)
    IN  [indices_len |-> Len(s.mesh.indices)]

SetupIdle == [variant |-> "none", pc |-> "idle"]
SmoothIdle == [pc |-> "idle"]
ConvIdle == [pc |-> "idle"]

InitLoop ==
    /\ control_flow = "Poll"
    /\ loop_phase = "idle"
    /\ event = EvNone
    /\ counts = [frames |-> 0, resizes |-> 0, inputs |-> 0]
    /\ ops = <<>>
    /\ since_draw = [resizes |-> 0, creates |-> 0, textures |-> 0]
    /\ setup = SetupIdle
    /\ smooth = SmoothIdle
    /\ conv = ConvIdle
    /\ hidpi_factor \in HidpiFactors
    /\ \E inner \in InitialInnerSizes :
          LET dpi == hidpi_factor IN
          \/ /\ variant = "wgpu"
             /\ scene = InitialScene
             /\ cpu_primitives = InitialPrimitives
             /\ frame_count = FZero
             /\ msaa_samples = 1
             /\ mesh_ranges = LogoMeshRanges
             /\ gpu = [swap_chain_desc |-> PhysicalExtent(inner, dpi),
                       swap_chain |-> Some(PhysicalExtent(inner, dpi)),
                       depth_texture_view |-> None,
                       globals_ubo |-> None, prims_ubo |-> None]
          \/ /\ variant = "wgpu_svg"
             /\ \E vb \in ViewBoxes : scene = InitialSceneSvg(vb)
             /\ cpu_primitives = <<>>
             /\ frame_count = FZero
             /\ \E arg \in MsaaArgs : msaa_samples = MsaaSamples(arg)
             /\ mesh_ranges = DocumentMeshRanges
             /\ gpu = [swap_chain_desc |-> PhysicalExtent(inner, dpi),
                       swap_chain |-> None,
                       msaa_texture |-> None,
                       globals_ubo |-> None]

Captured ==
    [scene |-> scene, control_flow |-> control_flow, gpu |-> gpu,
     cpu_primitives |-> cpu_primitives, frame_count |-> frame_count,
     ops |-> ops, mesh_ranges |-> mesh_ranges, msaa_samples |-> msaa_samples,
     panicked |-> FALSE]

CountOps(o, name) == Cardinality({i \in DOMAIN o : o[i][1] = name})
Draws(o) == CountOps(o, "draw_indexed") > 0

Counted(ev) ==
    IF ev.type = "EventsCleared" THEN [counts EXCEPT !.frames = @ + 1]
    ELSE IF ev.type = "Resized" THEN [counts EXCEPT !.resizes = @ + 1]
    ELSE IF ev.type \in {"NewEvents", "LoopDestroyed"} THEN counts
    ELSE [counts EXCEPT !.inputs = @ + 1]

WithinBounds(c) ==
    /\ c.frames <= MaxFrames
    /\ c.resizes <= MaxResizes
    /\ c.inputs <= MaxInputs

\* The loop after the closure returned r for event ev: Exit sticks, a panic
\* unwinds out of run, otherwise the iteration goes on to phase.
Returned(r, ev, phase) ==
    /\ scene' = r.scene
    /\ control_flow' = (IF control_flow = "Exit" THEN "Exit" ELSE r.control_flow)
    /\ gpu' = r.gpu
    /\ cpu_primitives' = r.cpu_primitives
    /\ frame_count' = r.frame_count
    /\ ops' = r.ops
    /\ loop_phase' = IF r.panicked THEN "panicked"
                     ELSE IF phase = "idle" /\ (control_flow = "Exit" \/ r.control_flow = "Exit")
                     THEN "exiting"
                     ELSE phase
    /\ since_draw' =
          [resizes |-> (IF Draws(ops) THEN 0 ELSE since_draw.resizes)
                       + (IF ev.type = "Resized" THEN 1 ELSE 0),
           creates |-> (IF Draws(ops) THEN 0 ELSE since_draw.creates)
                       + CountOps(r.ops, "create_swap_chain"),
           textures |-> (IF Draws(ops) THEN 0 ELSE since_draw.textures)
                        + CountOps(r.ops, "create_texture")]
    /\ event' = ev
    /\ counts' = Counted(ev)
    /\ mesh_ranges' = r.mesh_ranges
    /\ UNCHANGED <<variant, msaa_samples, hidpi_factor, setup, smooth, conv>>

\* One call of the closure with event ev; phase is where the loop goes next.
Deliver(ev, phase) ==
    /\ WithinBounds(Counted(ev))
    /\ Returned(IF variant = "wgpu" THEN Closure(ev, Captured, hidpi_factor)
                ELSE ClosureSvg(ev, Captured, hidpi_factor),
                ev, phase)

NewEvents == loop_phase = "idle" /\ Deliver(EvNewEvents, "polling")

WindowEvent == loop_phase = "polling" /\ \E ev \in WindowEvents : Deliver(ev, "polling")

EventsCleared == loop_phase = "polling" /\ Deliver(EvEventsCleared, "idle")

LoopDestroyed == loop_phase = "exiting" /\ Deliver(EvLoopDestroyed, "destroyed")

Next == NewEvents \/ WindowEvent \/ EventsCleared \/ LoopDestroyed

Spec == InitLoop /\ [][Next]_vars

(***************************************************************************)
(* The setup phases as state machines.  What the loop owns is not there    *)
(* yet, what the smoothing specification owns is not used.                 *)
(***************************************************************************)
MaxPaths == 1
MaxSeq == 4

NoLoop ==
    /\ variant = "none"
    /\ scene = None
    /\ control_flow = "Poll"
    /\ loop_phase = "setup"
    /\ event = EvNone
    /\ counts = [frames |-> 0, resizes |-> 0, inputs |-> 0]
    /\ gpu = None
    /\ cpu_primitives = None
    /\ frame_count = FZero
    /\ ops = <<>>
    /\ since_draw = [resizes |-> 0, creates |-> 0, textures |-> 0]
    /\ msaa_samples = 1
    /\ hidpi_factor = 1
    /\ mesh_ranges = None

PathNodes ==
    {PathNode(t, f, st) : t \in {"A", "B"}, f \in {None, SampleFill},
                          st \in {None, SampleStroke}}

InitSetup ==
    /\ NoLoop
    /\ smooth = SmoothIdle
    /\ conv = ConvIdle
    /\ \/ \E debug \in BOOLEAN : setup = SetupWgpuInit(debug)
       \/ setup = SetupSvgInit

TessellateFill ==
    /\ setup.variant = "wgpu" /\ setup.pc = "fill"
    /\ \E out \in TessOutputs : setup' = FillPass(setup, out)
    /\ UNCHANGED <<loopVars, smooth, conv>>

TessellateStroke ==
    /\ setup.variant = "wgpu" /\ setup.pc = "stroke"
    /\ \E out \in TessOutputs : setup' = StrokePass(setup, out)
    /\ UNCHANGED <<loopVars, smooth, conv>>

TessellateBackground ==
    /\ setup.variant = "wgpu" /\ setup.pc = "bg"
    /\ \E out \in BgOutputs : setup' = BackgroundPass(setup, out)
    /\ UNCHANGED <<loopVars, smooth, conv>>

WalkNode ==
    /\ setup.variant = "wgpu_svg" /\ setup.pc = "walk"
    /\ Len(setup.nodes) < MaxPaths
    /\ \E node \in PathNodes, fout \in SvgTessOutputs, sout \in SvgTessOutputs :
          setup' = WalkPath(setup, node, fout, sout)
    /\ UNCHANGED <<loopVars, smooth, conv>>

\* std::mem::size_of of the #[repr(C)] records, in bytes
SizeOfGpuPrimitive == 16
SizeOfGpuTransform == 32
SizeOfGpuGlobals == 20

prim_buffer_byte_size == MAX_PRIMITIVES * SizeOfGpuPrimitive
transform_buffer_byte_size == MAX_TRANSFORMS * SizeOfGpuTransform
globals_buffer_byte_size == SizeOfGpuGlobals

\* create_buffer_mapped(count, ..).fill_from_slice(..): count records
TransferBytes(count, record_size) == count * record_size

\* copy_buffer_to_buffer(src, 0, dst, 0, size)
CopyCmd(src, src_bytes, dst, dst_bytes, size) ==
    [src |-> src, src_bytes |-> src_bytes, dst |-> dst, dst_bytes |-> dst_bytes,
     size |-> size]

\* the copies recorded in init_encoder, in order
InitCopies(s) ==
    <<CopyCmd("transform_transfer_buffer",
              TransferBytes(Len(s.transforms), SizeOfGpuTransform),
              "transforms_ubo", transform_buffer_byte_size, transform_buffer_byte_size),
      CopyCmd("prim_transfer_buffer",
              TransferBytes(Len(s.primitives), SizeOfGpuPrimitive),
              "prims_ubo", prim_buffer_byte_size, prim_buffer_byte_size)>>

\* descendants() is exhausted: the buffers are created and the tables copied
WalkDone ==
    /\ setup.variant = "wgpu_svg" /\ setup.pc = "walk"
    /\ setup' = [setup EXCEPT !.pc = "done"] @@ [init_copies |-> InitCopies(setup)]
    /\ UNCHANGED <<loopVars, smooth, conv>>

\* setup is through: main goes on to event_loop.run
EnterLoop ==
    /\ setup.pc = "done"
    /\ loop_phase = "setup"
    /\ loop_phase' = "idle"
    /\ UNCHANGED <<variant, scene, control_flow, event, counts, gpu, cpu_primitives,
                   frame_count, ops, since_draw, msaa_samples, hidpi_factor, mesh_ranges,
                   setup, smooth, conv>>

NextSetup ==
    TessellateFill \/ TessellateStroke \/ TessellateBackground \/ WalkNode \/ WalkDone
    \/ EnterLoop

SpecSetup == InitSetup /\ [][NextSetup]_vars

\* The walk alone, over documents of up to MaxSeq path nodes whose
\* tessellation succeeds.
InitTransforms == NoLoop /\ smooth = SmoothIdle /\ conv = ConvIdle /\ setup = SetupSvgInit

WalkSample ==
    /\ setup.pc = "walk"
    /\ Len(setup.nodes) < MaxSeq
    /\ \E t \in Transforms, f \in {None, SampleFill} :
          setup' = WalkPath(setup, PathNode(t, f, SampleStroke), SampleOut, SampleOut)
    /\ UNCHANGED <<loopVars, smooth, conv>>

NextTransforms == WalkSample \/ WalkDone

SpecTransforms == InitTransforms /\ [][NextTransforms]_vars

(***************************************************************************)
(* The SVG walk over documents whose paints and outlines tell the passes   *)
(* apart: the n-th path node has its own fill and stroke colour, and its   *)
(* fill and its stroke tessellate to a vertex of their own.  The fill pass *)
(* succeeds; the stroke pass succeeds or returns Err, which is discarded.  *)
(***************************************************************************)
MaxWalkNodes == 3

PassKinds == <<"fill", "stroke">>
KindNo(kind) == IF kind = "fill" THEN 1 ELSE 2

\* the colour in the paint of the n-th node's fill or stroke
NodeColor(n, kind) ==
    [red |-> n, green |-> IF kind = "fill" THEN 0 ELSE 255,
     blue |-> IF kind = "fill" THEN 255 ELSE 0]

\* what the tessellator emits for the n-th node's fill or stroke
NodeOut(n, kind, result) ==
    [vertices |-> <<TessVertex(Vec(F(n), F(KindNo(kind))), Vec(FZero, F1), F3)>>,
     triangles |-> 1, result |-> result]

InitWalk == NoLoop /\ smooth = SmoothIdle /\ conv = ConvIdle /\ setup = SetupSvgInit

WalkPainted ==
    /\ setup.pc = "walk"
    /\ Len(setup.nodes) < MaxWalkNodes
    /\ LET n == Len(setup.nodes) + 1 IN
       \E t \in {"A", "B"},
          f \in {None, <<Fill(Paint("Color", NodeColor(n, "fill")), F1)>>},
          st \in {None, <<Stroke(Paint("Color", NodeColor(n, "stroke")), F1)>>},
          sres \in {"Ok", "Err"} :
          setup' = WalkPath(setup, PathNode(t, f, st),
                            NodeOut(n, "fill", "Ok"), NodeOut(n, "stroke", sres))
    /\ UNCHANGED <<loopVars, smooth, conv>>

NextWalk == WalkPainted \/ WalkDone

SpecWalk == InitWalk /\ [][NextWalk]_vars

(***************************************************************************)
(* The smoothing lines alone: a scene with one smoothed quantity away from *)
(* (or at) its target, stepped as update_inputs' tail steps it.            *)
(***************************************************************************)
MaxUlps == 6
MaxSmoothSteps == 2

FMaxValue == FNum(Pow2(MantBits) - 1, EMax)
FAbs(a) == IF IsNum(a) THEN FNum(Abs(a.m), a.e) ELSE IF IsInf(a) THEN FInf(1) ELSE a

\* the float j units in the last place of a away from it
FOffset(a, j) == FSigned(a.m + j, a.e)

SmoothCurrents ==
    {F(1), F(5), F(70), F0_8, F(-3), FZero, FNum(3, EMin), FNeg(FMaxValue), FInf(1)}
FarTargets == {FZero, F(-3), F(1000), FMaxValue, FInf(1), FInf(-1), FNaN}
TargetsFor(c) ==
    (IF IsNum(c) THEN {FOffset(c, j) : j \in (-MaxUlps)..MaxUlps} ELSE {c}) \cup FarTargets

SmoothFields == {"zoom", "scroll_x", "scroll_y", "stroke_width"}

WithField(sc, f, c, t) ==
    CASE f = "zoom" -> [sc EXCEPT !.zoom = c, !.target_zoom = t]
      [] f = "scroll_x" -> [sc EXCEPT !.scroll.x = c, !.target_scroll.x = t]
      [] f = "scroll_y" -> [sc EXCEPT !.scroll.y = c, !.target_scroll.y = t]
      [] f = "stroke_width" -> [sc EXCEPT !.stroke_width = c, !.target_stroke_width = t]

FieldValue(sc, f) ==
    CASE f = "zoom" -> sc.zoom
      [] f = "scroll_x" -> sc.scroll.x
      [] f = "scroll_y" -> sc.scroll.y
      [] f = "stroke_width" -> sc.stroke_width

FieldTarget(sc, f) ==
    CASE f = "zoom" -> sc.target_zoom
      [] f = "scroll_x" -> sc.target_scroll.x
      [] f = "scroll_y" -> sc.target_scroll.y
      [] f = "stroke_width" -> sc.target_stroke_width

FieldK(f) == IF f = "stroke_width" THEN F5 ELSE F3

InitSmooth ==
    /\ NoLoop
    /\ setup = SetupIdle
    /\ conv = ConvIdle
    /\ \E f \in SmoothFields, c \in SmoothCurrents :
          \E t \in TargetsFor(c) :
             smooth = [pc |-> "start", field |-> f, steps |-> 0,
                       scene |-> WithField(InitialScene, f, c, t),
                       before |-> WithField(InitialScene, f, c, t)]

SmoothingStep ==
    /\ smooth.pc \in {"start", "stepped"}
    /\ smooth.steps < MaxSmoothSteps
    /\ smooth' = [smooth EXCEPT !.pc = "stepped", !.steps = @ + 1,
                                !.before = smooth.scene,
                                !.scene = Smoothed(smooth.scene)]
    /\ UNCHANGED <<loopVars, setup, conv>>

NextSmooth == SmoothingStep

SpecSmooth == InitSmooth /\ [][NextSmooth]_vars

(***************************************************************************)
(* The glue between usvg's path segments and lyon's path events:           *)
(* PathConvIter.  A usvg coordinate is an f64; the ones used here are      *)
(* integers, written as such.                                               *)
(***************************************************************************)
MaxSegs == 4
MaxNones == 2

\* `as f32` of an integer-valued f64
F64AsF32(x) == FRound(Sgn(x), Abs(x), 0)

\* euclid's Point of f32, and the glue's point(&f64, &f64)
Point(x, y) == [x |-> x, y |-> y]
point(x, y) == Point(F64AsF32(x), F64AsF32(y))

Origin == Point(FZero, FZero)

SegMoveTo(x, y) == [kind |-> "MoveTo", x |-> x, y |-> y]
SegLineTo(x, y) == [kind |-> "LineTo", x |-> x, y |-> y]
SegCurveTo(x1, y1, x2, y2, x, y) ==
    [kind |-> "CurveTo", x1 |-> x1, y1 |-> y1, x2 |-> x2, y2 |-> y2, x |-> x, y |-> y]
SegClosePath == [kind |-> "ClosePath"]

EvMoveTo(to) == [kind |-> "MoveTo", to |-> to]
EvLine(from, to) == [kind |-> "Line", from |-> from, to |-> to]
EvCubic(from, ctrl1, ctrl2, to) ==
    [kind |-> "Cubic", from |-> from, ctrl1 |-> ctrl1, ctrl2 |-> ctrl2, to |-> to]
EvClose(from, to) == [kind |-> "Close", from |-> from, to |-> to]

\* convert_path
convert_path(segments) ==
    [segments |-> segments, pos |-> 0, first |-> Origin, prev |-> Origin]

Yield(it, item) == [iter |-> it, item |-> item]

Advanced(it) == [it EXCEPT !.pos = @ + 1]

\* the arms of next() for a segment seg, the slice iterator already advanced
NextMoveTo(it, p) == Yield([it EXCEPT !.prev = p, !.first = p], Some(EvMoveTo(p)))
NextLineTo(it, p) == Yield([it EXCEPT !.prev = p], Some(EvLine(it.prev, p)))
\* a CurveTo arm that leaves the current point where it was
NextCurveToKeep(it, c1, c2, p) == Yield(it, Some(EvCubic(it.prev, c1, c2, p)))

NextCurveTo(it, c1, c2, p) ==
    Yield([it EXCEPT !.prev = p], Some(EvCubic(it.prev, c1, c2, p)))
\* a ClosePath arm that leaves the current point where it was
NextClosePathKeep(it) == Yield(it, Some(EvClose(it.first, it.first)))

NextClosePath(it) ==
    Yield([it EXCEPT !.prev = it.first], Some(EvClose(it.first, it.first)))

NextArm(it, seg) ==
    CASE seg.kind = "MoveTo" -> NextMoveTo(it, point(seg.x, seg.y))
      [] seg.kind = "LineTo" -> NextLineTo(it, point(seg.x, seg.y))
      [] seg.kind = "CurveTo" ->
            NextCurveTo(it, point(seg.x1, seg.y1), point(seg.x2, seg.y2), point(seg.x, seg.y))
      [] seg.kind = "ClosePath" -> NextClosePath(it)

\* variants of next() that the properties below must tell apart: one that
\* closes an open subpath before a MoveTo by itself
PathConvIter_next_closing(it) ==
    IF it.pos >= Len(it.segments) THEN Yield(it, None)
    ELSE IF it.segments[it.pos + 1].kind = "MoveTo" /\ it.prev # it.first
    THEN NextClosePath(it)
    ELSE NextArm(Advanced(it), it.segments[it.pos + 1])

\* PathConvIter::next
PathConvIter_next(it) ==
    IF it.pos >= Len(it.segments) THEN Yield(it, None)
    ELSE NextArm(Advanced(it), it.segments[it.pos + 1])

\* Segment lists: two end points, one of them not representable in f32.
SegCoords == {<<3, 0>>, <<16777217, 3>>}
Segs ==
    {SegMoveTo(c[1], c[2]) : c \in SegCoords}
    \cup {SegLineTo(c[1], c[2]) : c \in SegCoords}
    \cup {SegCurveTo(1, 1, 2, 16777217, c[1], c[2]) : c \in SegCoords}
    \cup {SegClosePath}

SegLists == UNION {[1..n -> Segs] : n \in 0..MaxSegs}

InitPath ==
    /\ NoLoop
    /\ setup = SetupIdle
    /\ smooth = SmoothIdle
    /\ \E segments \in SegLists :
          conv = [pc |-> "iter", iter |-> convert_path(segments),
                  events |-> <<>>, nones |-> 0]

\* the consumer (the tessellator) calls next() once more
ConvNextSome ==
    /\ conv.pc \in {"iter", "done"}
    /\ PathConvIter_next(conv.iter).item # None
    /\ conv' = [conv EXCEPT !.iter = PathConvIter_next(conv.iter).iter,
                            !.events = Append(@, PathConvIter_next(conv.iter).item[1])]
    /\ UNCHANGED <<loopVars, setup, smooth>>

ConvNextNone ==
    /\ conv.pc \in {"iter", "done"}
    /\ conv.nones < MaxNones
    /\ PathConvIter_next(conv.iter).item = None
    /\ conv' = [conv EXCEPT !.pc = "done", !.nones = @ + 1,
                            !.iter = PathConvIter_next(conv.iter).iter]
    /\ UNCHANGED <<loopVars, setup, smooth>>

NextPath == ConvNextSome \/ ConvNextNone

SpecPath == InitPath /\ [][NextPath]_vars

(***************************************************************************)
(* The walk over a large document: up to MaxDocPaths path nodes, all alike, *)
(* each tessellated without error.                                          *)
(***************************************************************************)
MaxDocPaths == 257

InitCapacity == NoLoop /\ smooth = SmoothIdle /\ conv = ConvIdle /\ setup = SetupSvgInit

WalkRepeated ==
    /\ setup.pc = "walk"
    /\ Len(setup.nodes) < MaxDocPaths
    /\ \E f \in {None, SampleFill}, st \in {None, SampleStroke} :
          /\ setup.nodes # <<>> => PathNode("A", f, st) = setup.nodes[Len(setup.nodes)]
          /\ setup' = WalkPath(setup, PathNode("A", f, st), SampleOut, SampleOut)
    /\ UNCHANGED <<loopVars, smooth, conv>>

NextCapacity == WalkRepeated \/ WalkDone

SpecCapacity == InitCapacity /\ [][NextCapacity]_vars

(***************************************************************************)
(* Start of the SVG variant's main: the command line, the document, the    *)
(* walk (here over a document without path nodes), then the loop.  A       *)
(* string is a sequence of characters.                                     *)
(***************************************************************************)
MaxArgLen == 3

U32Max10 == 429496729       \* u32::MAX div 10; u32::MAX mod 10 is 5

Digits == <<"0", "1", "2", "3", "4", "5", "6", "7", "8", "9">>
IsDigit(c) == \E d \in DOMAIN Digits : Digits[d] = c
DigitValue(c) == (CHOOSE d \in DOMAIN Digits : Digits[d] = c) - 1

Ok(v) == [ok |-> TRUE, value |-> v]
Err(e) == [ok |-> FALSE, error |-> e]

\* the digit loop of from_str_radix: checked_mul(10), then checked_add(digit)
RECURSIVE ParseDigits(_, _, _)
ParseDigits(str, i, acc) ==
    IF i > Len(str) THEN Ok(acc)
    ELSE IF ~IsDigit(str[i]) THEN Err("InvalidDigit")
    ELSE IF acc > U32Max10 \/ (acc = U32Max10 /\ DigitValue(str[i]) > 5) THEN Err("PosOverflow")
    ELSE ParseDigits(str, i + 1, acc * 10 + DigitValue(str[i]))

\* a parse that takes the leading digits and stops at the first other character
RECURSIVE ParseLeadingDigits(_, _, _)
ParseLeadingDigits(str, i, acc) ==
    IF i > Len(str) \/ ~IsDigit(str[i]) THEN Ok(acc)
    ELSE ParseLeadingDigits(str, i + 1, acc * 10 + DigitValue(str[i]))

ParseU32Lenient(str) == ParseLeadingDigits(str, 1, 0)

\* str::parse::<u32>(): a "+" may lead, a "-" is no digit of an unsigned type
ParseU32(str) ==
    IF str = <<>> THEN Err("Empty")
    ELSE IF str \in {<<"+">>, <<"-">>} THEN Err("InvalidDigit")
    ELSE IF str[1] = "+" THEN ParseDigits(str, 2, 0)
    ELSE ParseDigits(str, 1, 0)

ArgChars == {"0", "4", "x", "+", "-"}
ArgStrings == UNION {[1..n -> ArgChars] : n \in 0..MaxArgLen}

Running(arg) == [variant |-> "wgpu_svg", pc |-> "tree", arg |-> arg, failed |-> FALSE]
Exited(arg, status, printed) ==
    [variant |-> "wgpu_svg", pc |-> "exited", arg |-> arg, failed |-> FALSE,
     status |-> status, printed |-> printed]

InitStartup ==
    /\ NoLoop
    /\ smooth = SmoothIdle
    /\ conv = ConvIdle
    /\ \E arg \in {None} \cup {Some(str) : str \in ArgStrings} :
          setup = [variant |-> "wgpu_svg", pc |-> "args", arg |-> arg, failed |-> FALSE]

\* what println! writes for the value msaa (the back quotes around the
\* value left out)
ErrorMessage(msaa) == <<"ERROR: ", msaa, " is not a number">>

\* let msaa_samples = ...: the value, or the message and exit(1)
MsaaOf(arg, parsed) ==
    IF parsed.ok THEN [samples |-> MsaaSamples(Some(parsed.value)), setup |-> Running(arg)]
    ELSE [samples |-> msaa_samples,
          setup |-> Exited(arg, 1, ErrorMessage(arg[1]))]

ParseArgs ==
    /\ setup.variant = "wgpu_svg" /\ setup.pc = "args"
    /\ IF setup.arg = None
       THEN msaa_samples' = MsaaSamples(None) /\ setup' = Running(setup.arg)
       ELSE /\ msaa_samples' = MsaaOf(setup.arg, ParseU32(setup.arg[1])).samples
            /\ setup' = MsaaOf(setup.arg, ParseU32(setup.arg[1])).setup
    /\ UNCHANGED <<variant, scene, control_flow, loop_phase, event, counts, gpu,
                   cpu_primitives, frame_count, ops, since_draw, hidpi_factor,
                   mesh_ranges, smooth, conv>>

\* usvg::Tree::from_file(..).unwrap(): the tree, or a panic
LoadTree ==
    /\ setup.variant = "wgpu_svg" /\ setup.pc = "tree"
    /\ \E loaded \in BOOLEAN :
          setup' = IF loaded THEN [arg |-> setup.arg] @@ SetupSvgInit
                   ELSE [setup EXCEPT !.pc = "panicked"]
    /\ UNCHANGED <<loopVars, smooth, conv>>

NextStartup == ParseArgs \/ LoadTree \/ WalkDone \/ EnterLoop

SpecStartup == InitStartup /\ [][NextStartup]_vars

(***************************************************************************)
(* GpuPrimitive::new alone: one call, on a colour and an opacity in [0, 1]. *)
(***************************************************************************)
MaxAlphaUlps == 2

ColorBytes == {0, 1, 128, 255}
Colors == [red : ColorBytes, green : ColorBytes, blue : ColorBytes]

\* opacities: 0, 1, the smallest positive f32, and the f32 around k/255
AlphaSteps == {1, 2, 3, 127, 128, 254, 255}
Alphas ==
    {FZero, F1, FNum(1, EMin)}
    \cup {a \in {FOffset(FDiv(F(k), F(255)), j) :
                    k \in AlphaSteps, j \in (-MaxAlphaUlps)..MaxAlphaUlps} : FLe(a, F1)}

InitPack ==
    /\ NoLoop
    /\ smooth = SmoothIdle
    /\ conv = ConvIdle
    /\ \E color \in Colors, alpha \in Alphas :
          setup = [variant |-> "none", pc |-> "pack", color |-> color, alpha |-> alpha]

Pack ==
    /\ setup.pc = "pack"
    /\ setup' = [setup EXCEPT !.pc = "packed"]
                @@ [prim |-> GpuPrimitive_new(0, setup.color, setup.alpha)]
    /\ UNCHANGED <<loopVars, smooth, conv>>

NextPack == Pack

SpecPack == InitPack /\ [][NextPack]_vars

(***************************************************************************)
(* The zoom keys of the procedural variant: the loop in the middle of an   *)
(* iteration in which one of the zoom keys has already been pressed a      *)
(* number of times, then further PageUp presses and unmatched events.      *)
(***************************************************************************)
MaxPriorUps == 391
MaxPriorDowns == 466
MaxZoomInputs == 4

\* the scene after n more presses of key, from scene sc; the presses are
\* split in halves to keep the evaluation shallow
RECURSIVE Pressed(_, _, _)
\* the second half, once the first half has been worked out
PressedOn(key, half, n) == IF half = half THEN Pressed(key, half, n) ELSE half

Pressed(key, sc, n) ==
    IF n = 0 THEN sc
    ELSE IF n = 1 THEN update_inputs(EvKeyPressed(key), "Poll", sc).scene
    ELSE PressedOn(key, Pressed(key, sc, n \div 2), n - (n \div 2))

AfterPresses(key, n) == Pressed(key, InitialScene, n)

PriorScenes ==
    {AfterPresses("PageUp", n) : n \in {0, 1} \cup ((MaxPriorUps - 2)..MaxPriorUps)}
    \cup {AfterPresses("PageDown", n) : n \in {1} \cup ((MaxPriorDowns - 2)..MaxPriorDowns)}

InitZoom ==
    /\ variant = "wgpu"
    /\ scene \in PriorScenes
    /\ control_flow = "Poll"
    /\ loop_phase = "polling"
    /\ event = EvNewEvents
    /\ counts = [frames |-> 0, resizes |-> 0, inputs |-> 0]
    /\ ops = <<>>
    /\ since_draw = [resizes |-> 0, creates |-> 0, textures |-> 0]
    /\ cpu_primitives = InitialPrimitives
    /\ frame_count = FZero
    /\ msaa_samples = 1
    /\ mesh_ranges = LogoMeshRanges
    /\ hidpi_factor \in HidpiFactors
    /\ \E inner \in InitialInnerSizes :
          gpu = [swap_chain_desc |-> PhysicalExtent(inner, hidpi_factor),
                 swap_chain |-> Some(PhysicalExtent(inner, hidpi_factor)),
                 depth_texture_view |-> None,
                 globals_ubo |-> None, prims_ubo |-> None]
    /\ setup = SetupIdle
    /\ smooth = SmoothIdle
    /\ conv = ConvIdle

ZoomDeliver(ev) ==
    /\ counts.inputs < MaxZoomInputs
    /\ Returned(Closure(ev, Captured, hidpi_factor), ev, "polling")

PressPageUp == loop_phase = "polling" /\ ZoomDeliver(EvKeyPressed("PageUp"))

\* an event no arm matches: only the smoothing step runs
ReleaseKey == loop_phase = "polling" /\ ZoomDeliver(EvKeyReleased)

NextZoom == PressPageUp \/ ReleaseKey

SpecZoom == InitZoom /\ [][NextZoom]_vars

(***************************************************************************)
(* The arrow keys of the procedural variant: update_inputs on a run of     *)
(* arrow key presses, from the scenes a few PageDown and Left presses      *)
(* after the initial one, and from those so far zoomed out that the f32    *)
(* quotient 50 / target_zoom is near or beyond the largest finite f32.     *)
(* trail holds the scene before each press.                                *)
(***************************************************************************)
MaxPriorZoomOuts == 5

\* the PageDown presses after which 50 / target_zoom is +inf
MaxDeepZoomOuts == 388

PriorZoomOuts == (0..MaxPriorZoomOuts) \cup ((MaxDeepZoomOuts - 2)..MaxDeepZoomOuts)
MaxPriorLefts == 3
MaxArrowPresses == 2

ArrowKeys == {"Left", "Right", "Up", "Down"}

PriorScrollScenes ==
    {Pressed("Left", Pressed("PageDown", InitialScene, a), b) :
        a \in PriorZoomOuts, b \in 0..MaxPriorLefts}

InitScroll ==
    /\ NoLoop
    /\ smooth = SmoothIdle
    /\ conv = ConvIdle
    /\ \E sc \in PriorScrollScenes :
          setup = [variant |-> "none", pc |-> "keys", scene |-> sc,
                   keys |-> <<>>, trail |-> <<>>]

PressArrow ==
    /\ setup.pc = "keys"
    /\ Len(setup.keys) < MaxArrowPresses
    /\ \E key \in ArrowKeys :
          setup' = [setup EXCEPT
                      !.scene = update_inputs(EvKeyPressed(key), "Poll", @).scene,
                      !.keys = Append(@, key),
                      !.trail = Append(@, setup.scene)]
    /\ UNCHANGED <<loopVars, smooth, conv>>

NextScroll == PressArrow

SpecScroll == InitScroll /\ [][NextScroll]_vars

(***************************************************************************)
(* Properties of the event loops (Spec).                                   *)
(***************************************************************************)
FrameOps == {"write_buffer", "copy_buffer_to_buffer", "draw_indexed", "submit"}
ProducesFrame(o) == \E i \in DOMAIN o : o[i][1] \in FrameOps

\* C1: once a close/destroy event or the Escape key has been handled
\* (control_flow holds Exit), no callback, the handling one included, writes
\* the globals or primitive buffer, records a copy, draws or submits.
C1_NoFrameAfterExit == control_flow = "Exit" => ~ProducesFrame(ops)

\* C2: however many resize events are handled between two rendered frames,
\* the swap chain and the size-dependent texture are created at most once
\* before the next draw.
C2_RecreatedAtMostOncePerDraw == since_draw.creates <= 1 /\ since_draw.textures <= 1

C2_BurstOfResizesOneRecreation ==
    /\ variant = "wgpu"
    /\ counts.frames >= 2
    /\ Draws(ops)
    /\ since_draw.resizes >= 2
    /\ since_draw.creates = 1
    /\ since_draw.textures = 1

SmoothedFields(sc) == <<sc.zoom, sc.scroll, sc.stroke_width>>

\* C3: in the procedural variant the callback for EventsCleared applies one
\* smoothing step to zoom, scroll and stroke width, and the callbacks for
\* the events polled before it (NewEvents, cursor, resize, keys) apply none.
C3_SmoothingOnEventsClearedOnly ==
    [][variant = "wgpu" =>
        /\ event'.type = "EventsCleared" =>
              SmoothedFields(scene') = SmoothedFields(Smoothed(scene))
        /\ event'.type \in {"NewEvents", "CursorMoved", "Resized", "KeyPressed", "KeyReleased"} =>
              SmoothedFields(scene') = SmoothedFields(scene)]_vars

PolledEvent ==
    \/ event.type \in {"NewEvents", "CursorMoved", "Resized", "KeyReleased"}
    \/ event.type = "KeyPressed" /\ event.key # "Escape"

\* C6: the callback for EventsCleared renders and submits exactly one frame;
\* the callback for a cursor move, a resize, a key press other than Escape or
\* an event update_inputs has no arm for issues no GPU command at all.
C6_OneFramePerEventsCleared ==
    /\ event.type = "EventsCleared" =>
          /\ CountOps(ops, "get_next_texture") = 1
          /\ CountOps(ops, "begin_render_pass") = 1
          /\ Draws(ops)
          /\ CountOps(ops, "submit") = 1
          /\ ops[Len(ops)] = <<"submit">>
    /\ PolledEvent => ops = <<>>

C6_FrameAfterPolledInput ==
    /\ event.type = "EventsCleared"
    /\ control_flow = "Poll"
    /\ counts.inputs >= 1
    /\ counts.resizes >= 1
    /\ CountOps(ops, "submit") = 1

(***************************************************************************)
(* Properties of the smoothing step (SpecSmooth).                          *)
(***************************************************************************)
\* one unit in the last place of a
Ulp(a) == FRound(1, 1, a.e)

Between(c, n, t) == (FLe(c, n) /\ FLe(n, t)) \/ (FLe(t, n) /\ FLe(n, c))

\* n is nearer to t than c is, on c's side of t or on t itself
StrictlyCloserSameSide(c, n, t) ==
    \/ FLt(c, t) /\ FLt(c, n) /\ FLe(n, t)
    \/ FLt(t, c) /\ FLt(n, c) /\ FLe(t, n)

\* C4 as stated: a step from current != target ends strictly closer to the
\* target, on the same side of it.
C4_StrictlyCloser ==
    smooth.pc = "stepped" =>
        \A f \in SmoothFields :
            ~FEq(FieldValue(smooth.before, f), FieldTarget(smooth.before, f)) =>
                StrictlyCloserSameSide(FieldValue(smooth.before, f),
                                       FieldValue(smooth.scene, f),
                                       FieldTarget(smooth.before, f))

FiniteStep(c, t) == IsNum(c) /\ IsNum(t) /\ IsNum(FSub(t, c)) /\ c # t

\* C4: for finite current != target whose difference is finite, a step with
\* k = 3 (zoom, scroll) or k = 5 (stroke width) never ends farther from the
\* target and never passes it, and ends strictly closer whenever the
\* computed (target - current) / k is at least one unit in the last place of
\* current.
C4_NeverFartherNeverPast ==
    smooth.pc = "stepped" =>
        \A f \in SmoothFields :
            FiniteStep(FieldValue(smooth.before, f), FieldTarget(smooth.before, f)) =>
                /\ Between(FieldValue(smooth.before, f), FieldValue(smooth.scene, f),
                           FieldTarget(smooth.before, f))
                /\ FLe(Ulp(FieldValue(smooth.before, f)),
                       FAbs(FDiv(FSub(FieldTarget(smooth.before, f),
                                      FieldValue(smooth.before, f)), FieldK(f)))) =>
                      StrictlyCloserSameSide(FieldValue(smooth.before, f),
                                             FieldValue(smooth.scene, f),
                                             FieldTarget(smooth.before, f))

C4_StepTowardsFarTarget ==
    /\ smooth.pc = "stepped"
    /\ smooth.field = "stroke_width"
    /\ smooth.before.stroke_width = F(1)
    /\ smooth.before.target_stroke_width = F(1000)
    /\ FLt(F(1), smooth.scene.stroke_width)
    /\ FLt(smooth.scene.stroke_width, F(1000))

AtTargets(sc) ==
    /\ FEq(sc.zoom, sc.target_zoom)
    /\ FEq(sc.scroll.x, sc.target_scroll.x)
    /\ FEq(sc.scroll.y, sc.target_scroll.y)
    /\ FEq(sc.stroke_width, sc.target_stroke_width)

AllFinite(sc) ==
    IsNum(sc.zoom) /\ IsNum(sc.scroll.x) /\ IsNum(sc.scroll.y) /\ IsNum(sc.stroke_width)

\* C5 as stated: with zoom, scroll and stroke width equal to their targets,
\* a step leaves all three unchanged.
C5_FixedPoint ==
    smooth.pc = "stepped" /\ AtTargets(smooth.before) =>
        SmoothedFields(smooth.scene) = SmoothedFields(smooth.before)

\* C5: with zoom, scroll and stroke width finite and equal to their targets,
\* a step leaves all three unchanged.
C5_FiniteFixedPoint ==
    smooth.pc = "stepped" /\ AtTargets(smooth.before) /\ AllFinite(smooth.before) =>
        SmoothedFields(smooth.scene) = SmoothedFields(smooth.before)

C5_SteppedAtTargets ==
    /\ smooth.pc = "stepped"
    /\ AtTargets(smooth.before)
    /\ smooth.before.zoom = F(70)
    /\ smooth.scene.zoom = F(70)

(***************************************************************************)
(* Properties of the setup phases (SpecSetup, SpecTransforms).             *)
(***************************************************************************)
\* C7: every vertex in the mesh carries the id of the primitive its pass was
\* run for: procedural, 1 from the fill pass and 0 from the stroke pass; SVG,
\* the index of the primitive pushed just before the pass; so each id is
\* below the primitive count.
C7_VerticesCarryPassPrimitive ==
    /\ setup.variant = "wgpu" =>
          \A i \in DOMAIN setup.geometry.vertices :
              /\ setup.geometry.vertices[i].v.prim_id =
                    (IF setup.geometry.vertices[i].pass = "fill" THEN 1 ELSE 0)
              /\ setup.geometry.vertices[i].v.prim_id < PRIM_BUFFER_LEN
    /\ setup.variant = "wgpu_svg" =>
          \A i \in DOMAIN setup.mesh.vertices :
              /\ setup.mesh.vertices[i].v.prim_id \in 0..(Len(setup.primitives) - 1)
              /\ setup.primitives[setup.mesh.vertices[i].v.prim_id + 1].pass
                    = setup.mesh.vertices[i].pass

C7_FillAndStrokeVertices ==
    /\ setup.variant = "wgpu_svg"
    /\ Len(setup.primitives) = 2
    /\ \E i, j \in DOMAIN setup.mesh.vertices :
          /\ setup.mesh.vertices[i].v.prim_id = 0
          /\ setup.mesh.vertices[j].v.prim_id = 1

HasNaN(xs) == \E i \in DOMAIN xs : IsNaN(xs[i])

\* C8: no vertex buffer of either variant ever holds a vertex with a NaN
\* position or normal component (the constructors abort on such a vertex).
C8_NoNaNVertexAppended ==
    /\ setup.variant = "wgpu" =>
          /\ \A i \in DOMAIN setup.geometry.vertices :
                /\ ~HasNaN(setup.geometry.vertices[i].v.position)
                /\ ~HasNaN(setup.geometry.vertices[i].v.normal)
          /\ \A i \in DOMAIN setup.bg_geometry.vertices :
                ~HasNaN(setup.bg_geometry.vertices[i].v.position)
    /\ setup.variant = "wgpu_svg" =>
          \A i \in DOMAIN setup.mesh.vertices : ~HasNaN(setup.mesh.vertices[i].v.position)

InRange(i, range) == range[1] <= i /\ i < range[2]

\* C9: once both passes have run, fill_range starts at 0, stroke_range starts
\* where fill_range ends and ends at geometry.indices.len(); every index
\* position lies in exactly one of them, the fill pass's in fill_range.
C9_RangesPartitionIndices ==
    setup.variant = "wgpu" /\ setup.pc \in {"bg", "done"} =>
        /\ setup.fill_range[1] = 0
        /\ setup.fill_range[1] <= setup.fill_range[2]
        /\ setup.stroke_range[1] = setup.fill_range[2]
        /\ setup.stroke_range[1] <= setup.stroke_range[2]
        /\ setup.stroke_range[2] = Len(setup.geometry.indices)
        /\ \A i \in 0..(Len(setup.geometry.indices) - 1) :
              /\ InRange(i, setup.fill_range) # InRange(i, setup.stroke_range)
              /\ InRange(i, setup.fill_range) <=> setup.geometry.indices[i + 1] = "fill"

C9_BothRangesNonEmpty ==
    /\ setup.variant = "wgpu" /\ setup.pc = "done"
    /\ setup.fill_range = <<0, 3>>
    /\ setup.stroke_range = <<3, 6>>

NodeTransforms(s) == [i \in DOMAIN s.nodes |-> s.nodes[i].transform]

\* C10: the number of transform records equals the number of path nodes that
\* are first or whose transform differs from the previous node's.
C10_RecordPerChangeOfTransform ==
    setup.variant = "wgpu_svg" =>
        Len(setup.transforms) =
            Cardinality({i \in DOMAIN setup.nodes :
                            i = 1 \/ setup.nodes[i].transform # setup.nodes[i - 1].transform})

C10_AABA ==
    /\ setup.variant = "wgpu_svg"
    /\ NodeTransforms(setup) = <<"A", "A", "B", "A">>
    /\ Len(setup.transforms) = 3

(***************************************************************************)
(* Properties of the path adapter (SpecPath).                              *)
(***************************************************************************)
RECURSIVE SubpathFirst(_, _)
\* the first point of the subpath that is open after the first n segments
SubpathFirst(segs, n) ==
    IF n = 0 THEN Origin
    ELSE IF segs[n].kind = "MoveTo" THEN point(segs[n].x, segs[n].y)
    ELSE SubpathFirst(segs, n - 1)

\* the current point after the first n segments
CurrentPoint(segs, n) ==
    IF n = 0 THEN Origin
    ELSE IF segs[n].kind = "ClosePath" THEN SubpathFirst(segs, n)
    ELSE point(segs[n].x, segs[n].y)

\* C11: the Close event emitted for a ClosePath segment runs from the
\* current point (the end point of the segment before the close) to the
\* first point of the current subpath.
C11_CloseFromCurrentPoint ==
    conv.pc # "idle" =>
        \A i \in DOMAIN conv.events :
            conv.iter.segments[i].kind = "ClosePath" =>
                /\ conv.events[i].kind = "Close"
                /\ conv.events[i].from = CurrentPoint(conv.iter.segments, i - 1)
                /\ conv.events[i].to = SubpathFirst(conv.iter.segments, i)

\* C12: after a Close event the adapter's current point is the first point
\* of the closed subpath, and a Line or Cubic event that follows a Close
\* directly starts from that point.
C12_CloseResetsCurrentPoint ==
    conv.pc # "idle" =>
        /\ (conv.events # <<>> /\ conv.events[Len(conv.events)].kind = "Close") =>
              conv.iter.prev = SubpathFirst(conv.iter.segments, Len(conv.events))
        /\ \A i \in DOMAIN conv.events :
              (i > 1 /\ conv.events[i - 1].kind = "Close"
                     /\ conv.events[i].kind \in {"Line", "Cubic"}) =>
                  conv.events[i].from = SubpathFirst(conv.iter.segments, i - 1)

C12_LineAfterClose ==
    /\ conv.pc = "iter"
    /\ Len(conv.events) = 4
    /\ conv.events[1] = EvMoveTo(Point(F(3), F(0)))
    /\ conv.events[2].kind = "Line" /\ conv.events[2].to = Point(F(16777216), F(3))
    /\ conv.events[3].kind = "Close"
    /\ conv.events[4].kind = "Line" /\ conv.events[4].from = Point(F(3), F(0))

EventKind(k) ==
    CASE k = "MoveTo" -> "MoveTo"
      [] k = "LineTo" -> "Line"
      [] k = "CurveTo" -> "Cubic"
      [] k = "ClosePath" -> "Close"

CountKind(xs, k) == Cardinality({i \in DOMAIN xs : xs[i].kind = k})

\* C13: the adapter yields one event per input segment, in input order and
\* of the corresponding kind, and None only once every segment has been
\* consumed and from then on; the Close events are as many as the ClosePath
\* segments.
C13_OneEventPerSegment ==
    conv.pc # "idle" =>
        /\ Len(conv.events) = conv.iter.pos
        /\ Len(conv.events) <= Len(conv.iter.segments)
        /\ \A i \in DOMAIN conv.events :
              conv.events[i].kind = EventKind(conv.iter.segments[i].kind)
        /\ conv.pc = "done" =>
              /\ Len(conv.events) = Len(conv.iter.segments)
              /\ CountKind(conv.events, "Close") = CountKind(conv.iter.segments, "ClosePath")

C13_AllKindsThenNone ==
    /\ conv.pc = "done"
    /\ conv.nones = 2
    /\ Len(conv.iter.segments) = 4
    /\ [i \in 1..4 |-> conv.iter.segments[i].kind] = <<"MoveTo", "CurveTo", "LineTo", "ClosePath">>
    /\ [i \in 1..4 |-> conv.events[i].kind] = <<"MoveTo", "Cubic", "Line", "Close">>

(***************************************************************************)
(* Properties of the SVG variant's tables (SpecCapacity).                  *)
(***************************************************************************)
\* C14: the SVG variant's primitive table never holds more than
\* MAX_PRIMITIVES records and no vertex carries a prim_id of MAX_PRIMITIVES
\* or more (a traversal that would exceed the capacity fails first).
C14_TableWithinCapacity ==
    setup.variant = "wgpu_svg" =>
        /\ Len(setup.primitives) <= MAX_PRIMITIVES
        /\ \A i \in DOMAIN setup.mesh.vertices :
              setup.mesh.vertices[i].v.prim_id < MAX_PRIMITIVES

(***************************************************************************)
(* Properties of setup as a whole (SpecSetup).                             *)
(***************************************************************************)
\* C15: once a tessellate call of either variant has returned an error, the
\* process does not get to its render loop.
C15_NoLoopAfterFailedTessellation == setup.failed => loop_phase = "setup"

(***************************************************************************)
(* Properties of the SVG variant's start (SpecStartup).                    *)
(***************************************************************************)
\* a non-empty string of decimal digits, a "+" before it or not
UnsignedInteger(str) ==
    \E k \in 0..1 :
        /\ Len(str) > k
        /\ k = 1 => str[1] = "+"
        /\ \A i \in (k + 1)..Len(str) : IsDigit(str[i])

BadMsaa == setup.arg # None /\ ~UnsignedInteger(setup.arg[1])

\* C16: with an --msaa value that is no unsigned integer the process gets no
\* further than reading its arguments: it prints the error and exits with
\* status 1, the document is never loaded or walked, msaa_samples is never
\* set and the loop is never entered.
C16_BadMsaaExitsFirst ==
    (setup.variant = "wgpu_svg" /\ "arg" \in DOMAIN setup /\ BadMsaa) =>
        /\ setup.pc \in {"args", "exited"}
        /\ setup.pc = "exited" =>
              /\ setup.status = 1
              /\ setup.printed = ErrorMessage(setup.arg[1])
        /\ "nodes" \notin DOMAIN setup
        /\ loop_phase = "setup"

C16_ExitedOnTrailingLetter ==
    /\ setup.pc = "exited"
    /\ setup.arg = Some(<<"4", "x">>)
    /\ setup.status = 1

\* C17: when --msaa N is given with an unsigned integer N, the sample count
\* the pipeline and the multisample texture are created with is N.
C17_SampleCountIsFlag ==
    (setup.variant = "wgpu_svg" /\ "arg" \in DOMAIN setup /\ setup.arg # None
        /\ UnsignedInteger(setup.arg[1]) /\ setup.pc \notin {"args", "exited"}) =>
        msaa_samples = ParseU32(setup.arg[1]).value

(***************************************************************************)
(* Properties of a rendered frame (Spec).                                  *)
(***************************************************************************)
Copies(o) == CountOps(o, "copy_buffer_to_buffer")

\* C18: in the commands of a closure call every copy into a uniform table is
\* recorded before every draw, and a call that records a copy or a draw
\* records both and hands them to the queue in one submission, its last
\* command.
C18_CopiesBeforeDrawsOneSubmission ==
    /\ \A i, j \in DOMAIN ops :
          (ops[i][1] = "copy_buffer_to_buffer" /\ ops[j][1] = "draw_indexed") => i < j
    /\ (Copies(ops) > 0 \/ Draws(ops)) =>
          /\ Copies(ops) > 0 /\ Draws(ops)
          /\ CountOps(ops, "submit") = 1
          /\ ops[Len(ops)] = <<"submit">>

C18_FrameWithBackground ==
    /\ variant = "wgpu"
    /\ counts.frames = 2
    /\ Copies(ops) = 2
    /\ CountOps(ops, "draw_indexed") = 3
    /\ ops[Len(ops)] = <<"submit">>

\* C19: after a frame of the procedural variant the GPU globals are the
\* scene's window size, scroll and zoom, the GPU primitive table is the CPU
\* table, all PRIM_BUFFER_LEN records of it, and record 0 of it holds the
\* scene's stroke width.
C19_GpuTablesMirrorCpu ==
    (variant = "wgpu" /\ Draws(ops)) =>
        /\ gpu.globals_ubo =
              Some([resolution |-> <<scene.window_size.width, scene.window_size.height>>,
                    scroll_offset |-> <<scene.scroll.x, scene.scroll.y>>,
                    zoom |-> scene.zoom])
        /\ gpu.prims_ubo # None
        /\ DOMAIN PrimitiveTable(gpu.prims_ubo[1]) = 0..(PRIM_BUFFER_LEN - 1)
        /\ PrimitiveTable(gpu.prims_ubo[1]) = PrimitiveTable(cpu_primitives)
        /\ PrimitiveTable(gpu.prims_ubo[1])[stroke_prim_id].width = scene.stroke_width

C19_FrameAfterWiderStroke ==
    /\ variant = "wgpu"
    /\ Draws(ops)
    /\ FLt(F(1), scene.stroke_width)
    /\ gpu.prims_ubo # None
    /\ PrimitiveTable(gpu.prims_ubo[1])[stroke_prim_id].width = scene.stroke_width
    /\ scene.window_size = LogicalSize(F(640), F(480))
    /\ gpu.globals_ubo # None
    /\ gpu.globals_ubo[1].resolution = <<F(640), F(480)>>

DrawIdx(o) == {i \in DOMAIN o : o[i][1] = "draw_indexed"}

\* the pipeline bound when command i is recorded
PipelineAt(o, i) ==
    o[CHOOSE j \in 1..i : /\ o[j][1] = "set_pipeline"
                          /\ \A k \in (j + 1)..i : o[k][1] # "set_pipeline"][2]

GeometryDraws(o) == {i \in DrawIdx(o) : PipelineAt(o, i) # "bg"}
BgDraws(o) == {i \in DrawIdx(o) : PipelineAt(o, i) = "bg"}

\* the primitive id in the vertices of the index range a draw covers
BasePrim(d) ==
    IF <<d[2], d[3]>> = mesh_ranges.fill_range THEN fill_prim_id ELSE stroke_prim_id

\* the primitive ids a draw reads, one per instance
DrawnIds(d) == {ShaderPrimId(BasePrim(d), k) : k \in d[4]..(d[5] - 1)}

Instances(d) == d[5] - d[4]

\* C20 as stated: a frame of the procedural variant has a draw whose
\* instances cover exactly the decoration ids 2..num_instances, every draw
\* that reads an outline primitive (id 0 or 1) is a single-instance draw, and
\* the background pipeline draws once if draw_background is set and not
\* otherwise.
C20_OutlineDrawsSingleInstance ==
    (variant = "wgpu" /\ Draws(ops)) =>
        /\ \E i \in GeometryDraws(ops) : DrawnIds(ops[i]) = 2..num_instances
        /\ \A i \in GeometryDraws(ops) :
              DrawnIds(ops[i]) \cap {stroke_prim_id, fill_prim_id} # {} =>
                  Instances(ops[i]) = 1
        /\ Cardinality(BgDraws(ops)) = (IF scene.draw_background THEN 1 ELSE 0)

\* C20: a frame of the procedural variant has two geometry draws: the fill
\* range with num_instances instances, which read the outline fill (id 1)
\* and the decorations (ids 2..num_instances), then the stroke range with
\* one instance (id 0); the background pipeline draws once if
\* draw_background is set and not otherwise.
C20_FillInstancedStrokeSingle ==
    (variant = "wgpu" /\ Draws(ops)) =>
        /\ Cardinality(GeometryDraws(ops)) = 2
        /\ \E f, s \in GeometryDraws(ops) :
              /\ f < s
              /\ <<ops[f][2], ops[f][3]>> = mesh_ranges.fill_range
              /\ Instances(ops[f]) = num_instances
              /\ DrawnIds(ops[f]) = {fill_prim_id} \cup 2..num_instances
              /\ <<ops[s][2], ops[s][3]>> = mesh_ranges.stroke_range
              /\ Instances(ops[s]) = 1
              /\ DrawnIds(ops[s]) = {stroke_prim_id}
        /\ Cardinality(BgDraws(ops)) = (IF scene.draw_background THEN 1 ELSE 0)
        /\ \A i \in BgDraws(ops) : Instances(ops[i]) = 1

C20_FrameWithoutBackground ==
    /\ variant = "wgpu"
    /\ Draws(ops)
    /\ ~scene.draw_background
    /\ CountOps(ops, "draw_indexed") = 2
    /\ BgDraws(ops) = {}

(***************************************************************************)
(* Properties of the SVG variant's tables after the walk (SpecWalk).       *)
(***************************************************************************)
RECURSIVE PassesOf(_, _)
\* the fill and stroke passes of the first n path nodes, in document order
PassesOf(nodes, n) ==
    IF n = 0 THEN <<>>
    ELSE PassesOf(nodes, n - 1)
         \o (IF nodes[n].fill # None THEN <<[node |-> n, kind |-> "fill"]>> ELSE <<>>)
         \o (IF nodes[n].stroke # None THEN <<[node |-> n, kind |-> "stroke"]>> ELSE <<>>)

\* the colour a pass paints with, read from the document
PassColor(nodes, p) ==
    PaintColor(IF p.kind = "fill" THEN nodes[p.node].fill[1].paint
               ELSE nodes[p.node].stroke[1].paint)

\* the colour bytes of a primitive record
RecordColor(prim) ==
    [red |-> prim.color.hi \div 256, green |-> prim.color.hi % 256,
     blue |-> prim.color.lo \div 256]

\* the pass a vertex of the mesh came out of, read from its position
PassAt(position) ==
    [node |-> CHOOSE n \in 1..Len(setup.nodes) : F(n) = position[1],
     kind |-> IF position[2] = F(KindNo("fill")) THEN "fill" ELSE "stroke"]

\* the ids in the vertices that the fill or the stroke of node n left
IdsOf(n, kind) ==
    {setup.mesh.vertices[i].v.prim_id : i \in
        {j \in DOMAIN setup.mesh.vertices :
            PassAt(setup.mesh.vertices[j].v.position) = [node |-> n, kind |-> kind]}}

\* C21: after a walk that did not panic the primitive table holds exactly
\* one record per fill and per stroke of the path nodes, in document order
\* with a path's fill before its stroke: the record with id k - 1 has the
\* colour of the k-th pass's paint, and every vertex carries the id of the
\* pass that emitted it, so a path's stroke id is its fill id plus one; a
\* document of one filled, unstroked path gives one primitive and one
\* transform record.
C21_DensePrimitiveIds ==
    LET P == PassesOf(setup.nodes, Len(setup.nodes)) IN
    (setup.variant = "wgpu_svg" /\ "nodes" \in DOMAIN setup /\ setup.pc # "panicked") =>
        /\ Len(setup.primitives) = Len(P)
        /\ \A k \in DOMAIN P :
              RecordColor(setup.primitives[k].prim) = PassColor(setup.nodes, P[k])
        /\ \A i \in DOMAIN setup.mesh.vertices :
              LET v == setup.mesh.vertices[i].v IN
              /\ v.prim_id + 1 \in DOMAIN P
              /\ P[v.prim_id + 1] = PassAt(v.position)
        /\ \A n \in DOMAIN setup.nodes :
              \A fid \in IdsOf(n, "fill"), sid \in IdsOf(n, "stroke") : fid = sid - 1
        /\ \A n \in DOMAIN setup.nodes :
              /\ setup.nodes[n].fill # None => IdsOf(n, "fill") # {}
              /\ setup.nodes[n].stroke = None => IdsOf(n, "stroke") = {}
        /\ (Len(setup.nodes) = 1 /\ setup.nodes[1].fill # None /\ setup.nodes[1].stroke = None)
              => Len(setup.primitives) = 1 /\ Len(setup.transforms) = 1

\* a stroked path, a filled and stroked one, a filled one: ids 0, 1 2, 3
C21_StrokeFillStrokeFill ==
    /\ setup.variant = "wgpu_svg" /\ setup.pc = "done"
    /\ Len(setup.nodes) = 3
    /\ setup.nodes[1].fill = None /\ setup.nodes[1].stroke # None
    /\ setup.nodes[2].fill # None /\ setup.nodes[2].stroke # None
    /\ setup.nodes[3].fill # None /\ setup.nodes[3].stroke = None
    /\ Len(setup.primitives) = 4
    /\ IdsOf(1, "stroke") = {0}
    /\ IdsOf(2, "fill") = {1}
    /\ IdsOf(2, "stroke") = {2}
    /\ IdsOf(3, "fill") = {3}

C21_OneFilledPath ==
    /\ setup.variant = "wgpu_svg" /\ setup.pc = "done"
    /\ Len(setup.nodes) = 1
    /\ setup.nodes[1].fill # None /\ setup.nodes[1].stroke = None
    /\ Len(setup.primitives) = 1
    /\ Len(setup.transforms) = 1
    /\ Len(setup.mesh.vertices) = 1
    /\ setup.mesh.vertices[1].v.prim_id = 0

\* the stroke pass of the second path failed: its record stays, the next
\* path's fill has the id after it
C21_FailedStrokeKeepsId ==
    /\ setup.variant = "wgpu_svg" /\ setup.pc = "done"
    /\ Len(setup.nodes) = 2
    /\ setup.nodes[1].fill # None /\ setup.nodes[1].stroke # None
    /\ IdsOf(1, "stroke") = {}
    /\ IdsOf(2, "fill") = {2}

(***************************************************************************)
(* Properties of GpuPrimitive::new (SpecPack).                             *)
(***************************************************************************)
\* the four bytes of a colour word, most significant first
Unpacked(word) == <<word.hi \div 256, word.hi % 256, word.lo \div 256, word.lo % 256>>

\* floor(a * 255) in exact arithmetic, for 0 <= a <= 1 (a = m * 2^e, e <= -12)
ExactFloor255(a) ==
    IF a.m = 0 \/ -a.e - 12 > 30 THEN 0
    ELSE (255 * (a.m \div 4096) + (255 * (a.m % 4096)) \div 4096) \div Pow2(-a.e - 12)

\* C22: the bytes of the colour word GpuPrimitive::new packs are, most
\* significant first, red, green, blue and floor(alpha * 255).
C22_ColorRoundTrips ==
    setup.pc = "packed" =>
        Unpacked(setup.prim.color) =
            <<setup.color.red, setup.color.green, setup.color.blue, ExactFloor255(setup.alpha)>>

C22_SolidRed ==
    /\ setup.pc = "packed"
    /\ setup.color = Red /\ setup.alpha = F1
    /\ Unpacked(setup.prim.color) = <<255, 0, 0, 255>>

C22_JustBelowHalf ==
    /\ setup.pc = "packed"
    /\ setup.alpha = FOffset(FDiv(F(128), F(255)), -1)
    /\ Unpacked(setup.prim.color)[4] = 127

(***************************************************************************)
(* Properties of the procedural primitive table (Spec).                    *)
(***************************************************************************)
\* the primitive ids the geometry draws of a frame read
FrameDrawnIds(o) == UNION {DrawnIds(o[i]) : i \in GeometryDraws(o)}

ZIndexOf(id) == PrimitiveTable(cpu_primitives)[id].z_index

\* C23: in every frame of the procedural variant the outline stroke (id 0)
\* and the outline fill (id 1) have a z-index strictly greater than every
\* decoration primitive (ids 2..num_instances), and no two drawn primitives
\* share a z-index.
C23_OutlineAboveDecorations ==
    (variant = "wgpu" /\ Draws(ops)) =>
        /\ \A o \in {stroke_prim_id, fill_prim_id} : \A d \in 2..num_instances :
              ZIndexOf(o) > ZIndexOf(d)
        /\ \A a, b \in FrameDrawnIds(ops) : a # b => ZIndexOf(a) # ZIndexOf(b)

\* what the table does give: the stroke is above everything drawn, the fill
\* is above the decorations 2..num_instances-1 and level with the last one
C23_FillLevelWithLastDecoration ==
    (variant = "wgpu" /\ Draws(ops)) =>
        /\ FrameDrawnIds(ops) = 0..num_instances
        /\ \A d \in 1..num_instances : ZIndexOf(stroke_prim_id) > ZIndexOf(d)
        /\ \A d \in 2..(num_instances - 1) : ZIndexOf(fill_prim_id) > ZIndexOf(d)
        /\ ZIndexOf(fill_prim_id) = ZIndexOf(num_instances)

(***************************************************************************)
(* Properties of the initial table copies (SpecSetup).                     *)
(***************************************************************************)
\* C24: every copy recorded in the SVG variant's init_encoder reads no more
\* bytes than its source transfer buffer holds.
C24_CopiesWithinSource ==
    "init_copies" \in DOMAIN setup =>
        \A i \in DOMAIN setup.init_copies :
            setup.init_copies[i].size <= setup.init_copies[i].src_bytes

(***************************************************************************)
(* Properties of the control flow after Exit (Spec).                       *)
(***************************************************************************)
\* what update_inputs leaves in *control_flow when it is handed ev and Exit
WrittenAfterExit(ev) ==
    IF variant = "wgpu" THEN update_inputs(ev, "Exit", scene).control_flow
    ELSE update_inputs_svg(ev, "Exit", scene).control_flow

\* C25: once a close, destroy or Escape event has set the control flow to
\* Exit, update_inputs leaves Exit in it for every later event it handles.
C25_ExitNeverBackToPoll ==
    [][control_flow = "Exit" => WrittenAfterExit(event') = "Exit"]_vars

\* the value the loop itself holds does stay Exit
C25_LoopKeepsExit == [][control_flow = "Exit" => control_flow' = "Exit"]_vars

(***************************************************************************)
(* Properties of the presentation surface (Spec).                          *)
(***************************************************************************)
\* the surface as the closure holds it was computed from window size sz
SurfaceOf(g, sz) ==
    /\ g.swap_chain_desc = PhysicalExtent(sz, hidpi_factor)
    /\ g.swap_chain = Some(PhysicalExtent(sz, hidpi_factor))
    /\ "depth_texture_view" \in DOMAIN g =>
          g.depth_texture_view = Some(PhysicalExtent(sz, hidpi_factor))
    /\ ("msaa_texture" \in DOMAIN g /\ g.msaa_texture # None) =>
          g.msaa_texture = Some(PhysicalExtent(sz, hidpi_factor))

\* C26: the scene's window size is the size of the most recent resize event
\* (only a Resized event changes it, to its size), and a callback that draws
\* leaves a swap-chain descriptor, a swap chain and a depth or MSAA texture
\* computed from that size, with size_changed false.
C26_SurfaceFollowsLatestResize ==
    [][/\ IF event'.type = "Resized" THEN scene'.window_size = event'.size
          ELSE scene'.window_size = scene.window_size
       /\ Draws(ops') => (SurfaceOf(gpu', scene'.window_size) /\ ~scene'.size_changed)]_vars

C26_FrameAfterTwoResizes ==
    /\ variant = "wgpu"
    /\ Draws(ops)
    /\ counts.frames = 2 /\ counts.resizes = 2
    /\ since_draw.resizes = 0
    /\ scene.window_size = LogicalSize(F(640), F(480))
    /\ gpu.swap_chain_desc = Extent(1280, 960)
    /\ gpu.depth_texture_view = Some(Extent(1280, 960))
    /\ ~scene.size_changed

(***************************************************************************)
(* Properties of the resources a frame unwraps (Spec).                     *)
(***************************************************************************)
\* what the frame unwraps: the depth texture view, or the swap chain
Unwrapped(g) ==
    IF "depth_texture_view" \in DOMAIN g THEN g.depth_texture_view ELSE g.swap_chain

BeginsPass(o) == CountOps(o, "begin_render_pass") > 0

\* C27: no callback panics on an unwrap: a callback that begins a render
\* pass leaves the resource it unwraps created, and when the resource did
\* not exist before the callback the callback created the surface.
C27_UnwrappedResourcesExist ==
    [][/\ loop_phase' # "panicked"
       /\ BeginsPass(ops') => Unwrapped(gpu') # None
       /\ (BeginsPass(ops') /\ Unwrapped(gpu) = None) =>
             CountOps(ops', "create_swap_chain") = 1]_vars

C27_FirstFrameRecreates ==
    /\ counts.frames = 1
    /\ BeginsPass(ops)
    /\ CountOps(ops, "create_swap_chain") = 1
    /\ Unwrapped(gpu) # None
    /\ loop_phase = "idle"

(***************************************************************************)
(* Properties of the transform indices (SpecTransforms).                   *)
(***************************************************************************)
\* the path node whose fill or stroke pushed primitive k
ProducerOf(s, k) == s.nodes[PassesOf(s.nodes, Len(s.nodes))[s.primitives[k].pass].node]

\* C28: every primitive's transform index is an index of the transform
\* table, and the record there was made from the transform of the path node
\* that pushed the primitive.
C28_TransformIndexValid ==
    setup.variant = "wgpu_svg" =>
        \A k \in DOMAIN setup.primitives :
            /\ setup.primitives[k].prim.transform \in 0..(Len(setup.transforms) - 1)
            /\ setup.transforms[setup.primitives[k].prim.transform + 1] =
                  GpuTransform(ProducerOf(setup, k).transform)

C28_SecondTransformUsed ==
    /\ setup.variant = "wgpu_svg" /\ setup.pc = "done"
    /\ NodeTransforms(setup) = <<"A", "B", "B">>
    /\ Len(setup.transforms) = 2
    /\ Len(setup.primitives) = 6
    /\ setup.primitives[1].prim.transform = 0
    /\ setup.primitives[6].prim.transform = 1

(***************************************************************************)
(* Properties of the events' start points (SpecPath).                      *)
(***************************************************************************)
\* C29: a Line or Cubic event starts where the event before it ended: at the
\* `to` of a MoveTo, Line or Cubic, and after a Close at the first point of
\* the closed subpath; a Line or Cubic with no event before it starts at the
\* origin, as does one that follows the Close of a subpath without a MoveTo.
C29_FromContinuesPrecedingEvent ==
    conv.pc # "idle" =>
        \A i \in DOMAIN conv.events :
            conv.events[i].kind \in {"Line", "Cubic"} =>
                IF i = 1 THEN conv.events[i].from = Origin
                ELSE IF conv.events[i - 1].kind = "Close"
                THEN conv.events[i].from = SubpathFirst(conv.iter.segments, i - 1)
                ELSE conv.events[i].from = conv.events[i - 1].to

C29_LineCubicCloseLine ==
    /\ conv.pc = "iter"
    /\ Len(conv.events) = 4
    /\ conv.events[1].kind = "Line" /\ conv.events[1].from = Origin
    /\ conv.events[1].to = Point(F(3), F(0))
    /\ conv.events[2].kind = "Cubic" /\ conv.events[2].from = Point(F(3), F(0))
    /\ conv.events[2].to = Point(F(16777216), F(3))
    /\ conv.events[3].kind = "Close"
    /\ conv.events[4].kind = "Line" /\ conv.events[4].from = Origin

(***************************************************************************)
(* Properties of the zoom-in key (SpecZoom).                               *)
(***************************************************************************)
PageUpPressed(ev) == ev.type = "KeyPressed" /\ ev.key = "PageUp"

\* the smallest positive f32 and its double: times 1.25 they round to themselves
StuckZoom(z) == z = FNum(1, EMin) \/ z = FNum(2, EMin)

\* C30 as stated: every PageUp press makes target_zoom strictly greater.
C30_PageUpStrictlyIncreases ==
    [][PageUpPressed(event') => FLt(scene.target_zoom, scene'.target_zoom)]_vars

\* C30: a PageUp press sets target_zoom to the f32 product of target_zoom
\* and 1.25, with no clamp: the result is strictly greater while target_zoom
\* is finite and above twice the smallest positive f32, it is +inf once the
\* product exceeds the f32 range, and it equals target_zoom when that is
\* +inf or one of the two smallest positive values; an event that no arm
\* matches, and the smoothing step it runs, leave target_zoom alone.
C30_PageUpIncreasesUntilInfinite ==
    [][/\ PageUpPressed(event') =>
             IF IsInf(scene.target_zoom) \/ StuckZoom(scene.target_zoom)
             THEN scene'.target_zoom = scene.target_zoom
             ELSE /\ FLt(scene.target_zoom, scene'.target_zoom)
                  /\ FLt(FMaxValue, FMul(scene.target_zoom, F1_25)) =>
                        scene'.target_zoom = FInf(1)
       /\ ~PageUpPressed(event') => scene'.target_zoom = scene.target_zoom]_vars

C30_ZoomReachesInfinity ==
    /\ PageUpPressed(event)
    /\ scene.target_zoom = FInf(1)
    /\ counts.inputs = 1

C30_ZoomStuckNearZero ==
    /\ PageUpPressed(event)
    /\ scene.target_zoom = FNum(2, EMin)

(***************************************************************************)
(* Properties of the arrow keys (SpecScroll).                              *)
(***************************************************************************)
\* the scenes before press 1, 2, .. and after the last one
ScenesAt(s) == s.trail \o <<s.scene>>

\* the f32 quotient 50 / target_zoom
ArrowDelta(sc) == FDiv(F50, sc.target_zoom)

\* what one press of key does to the targets of scene a, giving scene b
ArrowMoves(key, a, b) ==
    /\ b.target_zoom = a.target_zoom
    /\ b.target_stroke_width = a.target_stroke_width
    /\ key \in {"Left", "Right"} => b.target_scroll.y = a.target_scroll.y
    /\ key \in {"Up", "Down"} => b.target_scroll.x = a.target_scroll.x
    /\ key = "Left" => b.target_scroll.x = FSub(a.target_scroll.x, ArrowDelta(a))
    /\ key = "Right" => b.target_scroll.x = FAdd(a.target_scroll.x, ArrowDelta(a))
    /\ key = "Up" => b.target_scroll.y = FSub(a.target_scroll.y, ArrowDelta(a))
    /\ key = "Down" => b.target_scroll.y = FAdd(a.target_scroll.y, ArrowDelta(a))

Undoes(k1, k2) == <<k1, k2>> \in {<<"Left", "Right">>, <<"Up", "Down">>}

\* y is x up to the rounding of the two additions that went through mid
WithinRounding(x, mid, y) ==
    FLe(FAbs(FSub(y, x)), FMax(Ulp(mid), Ulp(y)))

\* the component of target_scroll that key moves
Moved(key, sc) ==
    IF key \in {"Left", "Right"} THEN sc.target_scroll.x ELSE sc.target_scroll.y

\* x - d + d in f32 through mid: x up to rounding while the quotient and both
\* sums are finite, an infinity or NaN otherwise, NaN when d itself is +inf
RestoredOrLost(x, d, mid, y) ==
    IF IsNum(d) /\ IsNum(mid) /\ IsNum(y)
    THEN WithinRounding(x, mid, y)
    ELSE /\ ~IsNum(y)
         /\ IsInf(d) => IsNaN(y)

\* C31 as stated: each arrow press moves one component of target_scroll by
\* 50/target_zoom and nothing else of the targets, and Left then Right, or
\* Up then Down, gives back the target_scroll before the pair.
C31_ArrowPairRestores ==
    setup.pc = "keys" =>
        /\ \A i \in DOMAIN setup.keys :
              ArrowMoves(setup.keys[i], ScenesAt(setup)[i], ScenesAt(setup)[i + 1])
        /\ \A i \in DOMAIN setup.keys :
              (i > 1 /\ Undoes(setup.keys[i - 1], setup.keys[i])) =>
                  ScenesAt(setup)[i + 1].target_scroll = ScenesAt(setup)[i - 1].target_scroll

\* C31: each arrow press moves one component of target_scroll by the f32
\* quotient 50/target_zoom, rounded, and nothing else of the targets; Left
\* then Right, or Up then Down, gives back the moved component up to the
\* rounding of the two additions as long as the quotient and both sums are
\* finite, and leaves an infinity or NaN in it once one of them overflows:
\* NaN when the quotient itself is +inf.
C31_ArrowPairRestoresUpToRounding ==
    setup.pc = "keys" =>
        /\ \A i \in DOMAIN setup.keys :
              ArrowMoves(setup.keys[i], ScenesAt(setup)[i], ScenesAt(setup)[i + 1])
        /\ \A i \in DOMAIN setup.keys :
              (i > 1 /\ Undoes(setup.keys[i - 1], setup.keys[i])) =>
                  RestoredOrLost(Moved(setup.keys[i], ScenesAt(setup)[i - 1]),
                                 ArrowDelta(ScenesAt(setup)[i - 1]),
                                 Moved(setup.keys[i], ScenesAt(setup)[i]),
                                 Moved(setup.keys[i], ScenesAt(setup)[i + 1]))

C31_LeftRightOffByRounding ==
    /\ setup.pc = "keys"
    /\ setup.keys = <<"Left", "Right">>
    /\ setup.trail[1] = Pressed("Left", Pressed("PageDown", InitialScene, 5), 3)
    /\ setup.scene.target_scroll.x # setup.trail[1].target_scroll.x
    /\ setup.scene.target_scroll.y = F(70)

\* zoomed out 388 times: 50 / target_zoom is +inf, Left gives -inf, Right NaN
C31_LeftRightLeavesNaN ==
    /\ setup.pc = "keys"
    /\ setup.keys = <<"Left", "Right">>
    /\ setup.trail[1] = Pressed("PageDown", InitialScene, MaxDeepZoomOuts)
    /\ ArrowDelta(setup.trail[1]) = FInf(1)
    /\ setup.trail[2].target_scroll.x = FInf(-1)
    /\ IsNaN(setup.scene.target_scroll.x)

\* zoomed out 386 times: the quotient is finite, the second Left overflows
C31_LeftLeftOverflows ==
    /\ setup.pc = "keys"
    /\ setup.keys = <<"Left", "Right">>
    /\ setup.trail[1] = Pressed("Left", Pressed("PageDown", InitialScene, MaxDeepZoomOuts - 2), 1)
    /\ IsNum(ArrowDelta(setup.trail[1]))
    /\ IsNum(setup.trail[1].target_scroll.x)
    /\ setup.scene.target_scroll.x = FInf(-1)

C31_LeftRightExact ==
    /\ setup.pc = "keys"
    /\ setup.keys = <<"Left", "Right">>
    /\ setup.trail[1] = InitialScene
    /\ setup.trail[2].target_scroll = Vec(F(60), F(70))
    /\ setup.scene.target_scroll = Vec(F(70), F(70))

(***************************************************************************)
(* Properties of the z-index as a function of the id (Spec).               *)
(***************************************************************************)
TableIds == 0..(PRIM_BUFFER_LEN - 1)

\* the tables there are: the CPU one and, once copied, the GPU one
TablesNow ==
    {PrimitiveTable(cpu_primitives)}
    \cup (IF gpu.prims_ubo = None THEN {} ELSE {PrimitiveTable(gpu.prims_ubo[1])})

\* C32 as stated: in every primitive table of the procedural variant a
\* higher id has a higher z-index.
C32_HigherIdHigherZ ==
    variant = "wgpu" =>
        \A t \in TablesNow : \A i, j \in TableIds : i < j => t[i].z_index < t[j].z_index

\* C32: the z-index is a function of the id alone, the same in every state
\* and table: num_instances + 2 for the stroke (id 0), num_instances + 1 for
\* the fill (id 1) and id + 1 for the decorations 2..num_instances, so that
\* among the decorations a higher id has a higher z-index, and the two
\* outline primitives, with the lowest ids, have the two highest.
C32_ZIndexByIdDecorationsAscending ==
    variant = "wgpu" =>
        \A t \in TablesNow :
            /\ t[stroke_prim_id].z_index = num_instances + 2
            /\ t[fill_prim_id].z_index = num_instances + 1
            /\ \A i \in 2..num_instances : t[i].z_index = i + 1
            /\ \A i, j \in 2..num_instances : i < j => t[i].z_index < t[j].z_index
            /\ \A i \in TableIds \ {stroke_prim_id} : t[i].z_index < t[stroke_prim_id].z_index
            /\ \A i \in 2..num_instances : t[i].z_index <= t[fill_prim_id].z_index

C32_TablesAfterSecondFrame ==
    /\ variant = "wgpu"
    /\ counts.frames = 2
    /\ Draws(ops)
    /\ Cardinality(TablesNow) = 1
    /\ cpu_primitives.drawn_at # None
    /\ ZIndexOf(0) = 65 /\ ZIndexOf(1) = 64 /\ ZIndexOf(2) = 3 /\ ZIndexOf(63) = 64

(***************************************************************************)
(* Properties of the static geometry (Spec).                               *)
(***************************************************************************)
\* the buffers a callback of the loop may write or copy into
PerFrameTables == IF variant = "wgpu" THEN {"globals", "prims"} ELSE {"globals"}

WritesOf(o) ==
    {o[i][2] : i \in {k \in DOMAIN o : o[k][1] \in {"write_buffer", "copy_buffer_to_buffer"}}}

\* the index ranges the draws of a frame may use
StaticRanges ==
    IF variant = "wgpu"
    THEN {mesh_ranges.fill_range, mesh_ranges.stroke_range, <<0, 6>>}
    ELSE {<<0, mesh_ranges.indices_len>>}

\* C33: no callback of the loop changes the index ranges of the static mesh,
\* writes or copies into a buffer other than the per-frame uniform tables
\* (globals, and the primitive table in the procedural variant; never the
\* vertex or index buffer, nor the SVG variant's transform and primitive
\* tables), or draws an index range other than the ones fixed at setup.
C33_StaticGeometryUntouched ==
    [][/\ mesh_ranges' = mesh_ranges
       /\ WritesOf(ops') \subseteq PerFrameTables
       /\ \A i \in DrawIdx(ops') : <<ops'[i][2], ops'[i][3]>> \in StaticRanges]_vars

C33_SecondDocumentFrameAfterInput ==
    /\ variant = "wgpu_svg"
    /\ counts.frames = 2 /\ counts.inputs = 1 /\ counts.resizes = 1
    /\ Draws(ops)
    /\ WritesOf(ops) = {"globals"}
    /\ Copies(ops) = 1
    /\ mesh_ranges = DocumentMeshRanges

=============================================================================
